---- MODULE Spec2Model ----
(***************************************************************************)
(* The laboratory-test subsystem (app/modules/module_3): the LabTest       *)
(* lifecycle with its three variants, the in-memory repository and the     *)
(* service that sequences lifecycle calls.                                 *)
(*                                                                         *)
(* Python strings that the code inspects (strip, lower, upper, substring)  *)
(* are sequences of one-character strings; a non-ASCII letter is written   *)
(* as a named token ("o_uml" for o-umlaut, "s_ced" for s-cedilla,          *)
(* "u_uml" for u-umlaut).  None is the record [kind |-> "None"].           *)
(* Fields that are written once by a constructor and read only by          *)
(* summary() (ordered_by, ordered_at, analyte, modality, ...) and the      *)
(* "time" stamp of a log entry are not part of the state.                  *)
(***************************************************************************)
EXTENDS Integers, Sequences, FiniteSets, TLC

VARIABLES
    heap,          \* heap address -> LabTest object (or Free)
    tests,         \* InMemoryLabTestRepository._tests: test id -> reference
    index_patient, \* InMemoryLabTestRepository._index_patient
    index_type,    \* InMemoryLabTestRepository._index_type
    history,       \* InMemoryLabTestRepository._history
    test_counter,  \* LabTestService._test_counter
    cache,         \* CachedLabTestRepository._cache: test id -> reference
    hits,          \* CachedLabTestRepository._hits, in insertion order
    capacity,      \* the capacity argument CachedLabTestRepository was constructed with
    alerts,        \* AlertService._alerts
    alert_counter, \* AlertService._alert_counter
    threads,       \* the two racing calls of the concurrent scenario
    last           \* the most recent call: operation, arguments, outcome

vars == <<heap, tests, index_patient, index_type, history, test_counter, cache, hits, capacity, alerts, alert_counter, threads, last>>

-----------------------------------------------------------------------------
(* Bounds of the model.                                                    *)

MaxTime == 2    \* datetime.now() returns one of 1..MaxTime
MaxAudit == 4   \* lifecycle calls are issued while the audit trail is shorter
MaxObj == 3     \* LabTest objects constructed
MaxHist == 3    \* calls that append to the history are issued while it is shorter
MaxLater == 1   \* history records appended after a test has completed
MaxTests == 1   \* tests the service creates
Capacity == 2   \* the largest capacity a cache is constructed with
MaxHits == 2    \* a cached entry is read while its access counter is smaller
MaxLimit == 2   \* history(limit) is called with limit in 0..MaxLimit
MaxIssued == 2  \* ids one service issues while callers also build tests themselves
MaxValue == 500 \* blood results have values 0..MaxValue, in steps of the range's grid
MaxWords == 2   \* the longest report, in words
MaxAlerts == 2  \* alerts are created while the service holds fewer

-----------------------------------------------------------------------------
(* Enumerations: base.py TestStatus and ResultStatus.                      *)

ORDERED == "ORDERED"
COLLECTED == "COLLECTED"
IN_PROGRESS == "IN_PROGRESS"
COMPLETED == "COMPLETED"
CANCELLED == "CANCELLED"
TestStatus == {ORDERED, COLLECTED, IN_PROGRESS, COMPLETED, CANCELLED}

UNKNOWN == "UNKNOWN"
NORMAL == "NORMAL"
BORDERLINE == "BORDERLINE"
CRITICAL == "CRITICAL"
ResultStatus == {UNKNOWN, NORMAL, BORDERLINE, CRITICAL}

None == [kind |-> "None"]
Free == [cls |-> "Free"]
\* a reference to the object at heap address n
Ref(n) == [kind |-> "ref", at |-> n]
NoError == "none"

datetime(t) == [kind |-> "datetime", t |-> t]
Times == {datetime(t) : t \in 1..MaxTime}

-----------------------------------------------------------------------------
(* Strings: a Python str is a sequence of one-character strings.           *)

\* subclasses.py ImagingTest.evaluate_criticality, the two keyword lists
critical_keywords ==
    { <<"h", "e", "m", "o", "r", "r", "h", "a", "g", "e">>,
      <<"k", "a", "n", "a", "m", "a">>,
      <<"m", "a", "s", "s", " ", "e", "f", "f", "e", "c", "t">>,
      <<"p", "u", "l", "m", "o", "n", "a", "r", "y", " ", "e", "m", "b", "o", "l", "i", "s", "m">>,
      <<"p", "n", "o_uml", "m", "o", "t", "o", "r", "a", "k", "s">>,
      <<"r", "u", "p", "t", "u", "r", "e">> }
borderline_keywords ==
    { <<"s", "u", "s", "p", "i", "c", "i", "o", "u", "s">>,
      <<"s_ced", "u_uml", "p", "h", "e", "l", "i">>,
      <<"m", "i", "l", "d">>,
      <<"h", "a", "f", "i", "f">>,
      <<"b", "o", "r", "d", "e", "r", "l", "i", "n", "e">> }
\* subclasses.py BiopsyTest.evaluate_criticality, the two keyword lists
malignant_keywords ==
    { <<"c", "a", "r", "c", "i", "n", "o", "m", "a">>,
      <<"m", "a", "l", "i", "g", "n", "a", "n", "t">>,
      <<"a", "d", "e", "n", "o", "c", "a", "r", "c", "i", "n", "o", "m", "a">>,
      <<"l", "y", "m", "p", "h", "o", "m", "a">>,
      <<"m", "e", "l", "a", "n", "o", "m", "a">>,
      <<"m", "a", "l", "i", "g", "n">> }
suspicious_keywords ==
    { <<"a", "t", "y", "p", "i", "a">>,
      <<"d", "y", "s", "p", "l", "a", "s", "i", "a">>,
      <<"s", "u", "s", "p", "i", "c", "i", "o", "u", "s">>,
      <<"s_ced", "u_uml", "p", "h", "e", "l", "i">> }

LowerTable == [A |-> "a", B |-> "b", C |-> "c", D |-> "d", E |-> "e", F |-> "f", G |-> "g", H |-> "h", I |-> "i", J |-> "j", K |-> "k", L |-> "l", M |-> "m", N |-> "n", O |-> "o", P |-> "p", Q |-> "q", R |-> "r", S |-> "s", T |-> "t", U |-> "u", V |-> "v", W |-> "w", X |-> "x", Y |-> "y", Z |-> "z"]
UpperTable == [a |-> "A", b |-> "B", c |-> "C", d |-> "D", e |-> "E", f |-> "F", g |-> "G", h |-> "H", i |-> "I", j |-> "J", k |-> "K", l |-> "L", m |-> "M", n |-> "N", o |-> "O", p |-> "P", q |-> "Q", r |-> "R", s |-> "S", t |-> "T", u |-> "U", v |-> "V", w |-> "W", x |-> "X", y |-> "Y", z |-> "Z"]

\* str.lower() and str.upper(), character by character
lower(s) == [i \in 1..Len(s) |-> IF s[i] \in DOMAIN LowerTable THEN LowerTable[s[i]] ELSE s[i]]
upper(s) == [i \in 1..Len(s) |-> IF s[i] \in DOMAIN UpperTable THEN UpperTable[s[i]] ELSE s[i]]

IsSpace(c) == c \in {" ", "\t", "\n"}

RECURSIVE lstrip(_)
lstrip(s) == IF s # <<>> /\ IsSpace(Head(s)) THEN lstrip(Tail(s)) ELSE s

RECURSIVE rstrip(_)
rstrip(s) == IF s # <<>> /\ IsSpace(s[Len(s)]) THEN rstrip(SubSeq(s, 1, Len(s) - 1)) ELSE s

\* str.strip()
strip(s) == rstrip(lstrip(s))

\* str.replace(" ", "_")
replace_space(s) == [i \in 1..Len(s) |-> IF s[i] = " " THEN "_" ELSE s[i]]

\* Python's `k in text` on strings
Contains(text, k) == \E i \in 0..(Len(text) - Len(k)) : SubSeq(text, i + 1, i + Len(k)) = k

\* " ".join(parts)
RECURSIVE join(_)
join(parts) ==
    IF parts = <<>> THEN <<>>
    ELSE IF Len(parts) = 1 THEN parts[1]
    ELSE parts[1] \o <<" ">> \o join(Tail(parts))

-----------------------------------------------------------------------------
(* Result values: NumericResult(value, unit), a dict (an ordered sequence  *)
(* of <<key, value>> items), a str, or something else (here an int).       *)

NumericResult(value, unit) == [kind |-> "NumericResult", value |-> value, unit |-> unit]
dict(items) == [kind |-> "dict", items |-> items]
str(text) == [kind |-> "str", text |-> text]
int(n) == [kind |-> "int", n |-> n]

\* `key in d`
HasKey(d, key) == \E i \in 1..Len(d.items) : d.items[i][1] = key
\* d[key] for a present key (the last item written under the key)
GetItem(d, key) == d.items[CHOOSE i \in 1..Len(d.items) : d.items[i][1] = key /\ \A j \in (i + 1)..Len(d.items) : d.items[j][1] # key][2]
\* d.values() as str() of each, in insertion order
RECURSIVE values_str(_)
values_str(items) == IF items = <<>> THEN <<>> ELSE <<items[1][2]>> \o values_str(Tail(items))

\* base.py ReferenceRange
\* A float is counted in steps of a grid, exactly.  The numbers of a range
\* and of the results compared with it share the grid; nano is 1e-9 in steps
\* of that grid, and 0 on a grid whose step is larger than 1e-9 (integers,
\* halves), where every positive number exceeds 1e-9.
ReferenceRangeOn(low, high, unit, nano) == [low |-> low, high |-> high, unit |-> unit, nano |-> nano]
ReferenceRange(low, high, unit) == ReferenceRangeOn(low, high, unit, 0)
contains(ref, value) == ref.low <= value /\ value <= ref.high

-----------------------------------------------------------------------------
(* LabTest objects: base.py LabTest and subclasses.py.                     *)

\* LabTest.build_test_type
build_test_type(base, suffix) ==
    replace_space(upper(strip(base))) \o <<"_">> \o replace_space(upper(strip(suffix)))

\* datetime.isoformat()
isoformat(d) == [kind |-> "isoformat", t |-> d.t]

\* LabTest._log: appends one entry to the audit trail
_log(self, action, payload) ==
    [self EXCEPT !.audit = Append(@, [action |-> action, payload |-> payload])]

\* LabTest.__init__, as the three subclass constructors call it (status and
\* ordered_at left at their defaults)
LabTest_init(cls, test_id, patient_id, test_type, reference) ==
    _log([cls |-> cls,
          test_id |-> test_id,
          patient_id |-> patient_id,
          test_type |-> strip(test_type),
          reference |-> reference,
          status |-> ORDERED,
          collected_at |-> None,
          completed_at |-> None,
          result |-> None,
          result_note |-> <<>>,
          result_status |-> UNKNOWN,
          audit |-> <<>>],
         "CREATE", [status |-> ORDERED])

s_BLOOD == <<"B", "L", "O", "O", "D">>
s_IMAGING == <<"I", "M", "A", "G", "I", "N", "G">>
s_BIOPSY == <<"B", "I", "O", "P", "S", "Y">>

BloodTest(test_id, patient_id, panel_name, reference) ==
    LabTest_init("BloodTest", test_id, patient_id, build_test_type(s_BLOOD, panel_name), reference)

ImagingTest(test_id, patient_id, modality) ==
    LabTest_init("ImagingTest", test_id, patient_id, build_test_type(s_IMAGING, modality), None)

BiopsyTest(test_id, patient_id, specimen_type) ==
    LabTest_init("BiopsyTest", test_id, patient_id, build_test_type(s_BIOPSY, specimen_type), None)

\* A result value of kind NumericResult or dict holds integer values here, on
\* which float() is exact.
BloodTest_validate_result(self, result) ==
    IF result.kind \notin {"NumericResult", "dict"} THEN "TypeError"
    ELSE IF result.kind = "dict" /\ (~HasKey(result, "value") \/ ~HasKey(result, "unit")) THEN "ValueError"
    ELSE LET value == IF result.kind = "dict" THEN GetItem(result, "value") ELSE result.value
             unit == IF result.kind = "dict" THEN GetItem(result, "unit") ELSE result.unit
         IN  IF strip(unit) # self.reference.unit THEN "ValueError"
             ELSE IF value < 0 THEN "ValueError"
             ELSE NoError

\* delta <= 0.10 where delta = num / max(bound, 1e-9), on the grid: the
\* divisor is positive (on a coarse grid a bound below one step gives 1e-9,
\* under which only num <= 0 passes, as 10 * num <= 0 says).
delta_le_tenth(num, bound, nano) == 10 * num <= (IF bound >= nano THEN bound ELSE nano)

\* evaluate_criticality with delta < 0.10 where line 86 has delta <= 0.10
BloodTest_evaluate_criticality_strict(self, result) ==
    LET value == IF result.kind = "dict" THEN GetItem(result, "value") ELSE result.value
        low == self.reference.low
        high == self.reference.high
        nano == self.reference.nano
    IN  IF contains(self.reference, value) THEN NORMAL
        ELSE IF value < low
             THEN (IF 10 * (low - value) < (IF low >= nano THEN low ELSE nano) THEN BORDERLINE ELSE CRITICAL)
             ELSE (IF 10 * (value - high) < (IF high >= nano THEN high ELSE nano) THEN BORDERLINE ELSE CRITICAL)

BloodTest_evaluate_criticality(self, result) ==
    LET value == IF result.kind = "dict" THEN GetItem(result, "value") ELSE result.value
        low == self.reference.low
        high == self.reference.high
        nano == self.reference.nano
    IN  IF contains(self.reference, value) THEN NORMAL
        ELSE IF value < low
             THEN (IF delta_le_tenth(low - value, low, nano) THEN BORDERLINE ELSE CRITICAL)
             ELSE (IF delta_le_tenth(value - high, high, nano) THEN BORDERLINE ELSE CRITICAL)

ImagingTest_validate_result(self, result) ==
    IF result.kind = "str"
    THEN (IF Len(strip(result.text)) < 10 THEN "ValueError" ELSE NoError)
    ELSE IF result.kind = "dict"
    THEN (IF ~HasKey(result, "impression") /\ ~HasKey(result, "findings") THEN "ValueError" ELSE NoError)
    ELSE "TypeError"

\* evaluate_criticality with the two checks in the other order
ImagingTest_evaluate_criticality_borderline_first(self, result) ==
    LET text == IF result.kind = "str" THEN lower(result.text)
                ELSE IF result.kind = "dict" THEN lower(join(values_str(result.items)))
                ELSE <<>>
    IN  IF \E k \in borderline_keywords : Contains(text, k) THEN BORDERLINE
        ELSE IF \E k \in critical_keywords : Contains(text, k) THEN CRITICAL
        ELSE NORMAL

ImagingTest_evaluate_criticality(self, result) ==
    LET text == IF result.kind = "str" THEN lower(result.text)
                ELSE IF result.kind = "dict" THEN lower(join(values_str(result.items)))
                ELSE <<>>
    IN  IF \E k \in critical_keywords : Contains(text, k) THEN CRITICAL
        ELSE IF \E k \in borderline_keywords : Contains(text, k) THEN BORDERLINE
        ELSE NORMAL

BiopsyTest_validate_result(self, result) ==
    IF result.kind = "dict"
    THEN (IF ~HasKey(result, "diagnosis") THEN "ValueError"
          ELSE IF Len(strip(GetItem(result, "diagnosis"))) < 3 THEN "ValueError"
          ELSE NoError)
    ELSE IF result.kind = "str"
    THEN (IF Len(strip(result.text)) < 10 THEN "ValueError" ELSE NoError)
    ELSE "TypeError"

BiopsyTest_evaluate_criticality(self, result) ==
    LET text == IF result.kind = "str" THEN lower(result.text)
                ELSE IF HasKey(result, "diagnosis") THEN lower(GetItem(result, "diagnosis"))
                ELSE <<>>
    IN  IF \E k \in malignant_keywords : Contains(text, k) THEN CRITICAL
        ELSE IF \E k \in suspicious_keywords : Contains(text, k) THEN BORDERLINE
        ELSE NORMAL

\* dynamic dispatch of the two abstract methods; the value is the exception
\* validate_result raises, or NoError
validate_result(self, result) ==
    CASE self.cls = "BloodTest" -> BloodTest_validate_result(self, result)
      [] self.cls = "ImagingTest" -> ImagingTest_validate_result(self, result)
      [] self.cls = "BiopsyTest" -> BiopsyTest_validate_result(self, result)

evaluate_criticality(self, result) ==
    CASE self.cls = "BloodTest" -> BloodTest_evaluate_criticality(self, result)
      [] self.cls = "ImagingTest" -> ImagingTest_evaluate_criticality(self, result)
      [] self.cls = "BiopsyTest" -> BiopsyTest_evaluate_criticality(self, result)

\* is_valid_status_transition with a table that tolerates re-collection
is_valid_status_transition_recollect(current, new) ==
    LET allowed == [st \in TestStatus |->
                      CASE st = ORDERED -> {COLLECTED, IN_PROGRESS, CANCELLED}
                        [] st = COLLECTED -> {COLLECTED, IN_PROGRESS, CANCELLED}
                        [] st = IN_PROGRESS -> {COMPLETED, CANCELLED}
                        [] st = COMPLETED -> {}
                        [] st = CANCELLED -> {}]
    IN  IF current \in DOMAIN allowed THEN new \in allowed[current] ELSE FALSE

\* LabTest.is_valid_status_transition
is_valid_status_transition(current, new) ==
    LET allowed == [st \in TestStatus |->
                      CASE st = ORDERED -> {COLLECTED, IN_PROGRESS, CANCELLED}
                        [] st = COLLECTED -> {IN_PROGRESS, CANCELLED}
                        [] st = IN_PROGRESS -> {COMPLETED, CANCELLED}
                        [] st = COMPLETED -> {}
                        [] st = CANCELLED -> {}]
    IN  IF current \in DOMAIN allowed THEN new \in allowed[current] ELSE FALSE

\* LabTest._ensure_not_cancelled: the exception it raises, or NoError
_ensure_not_cancelled(self) ==
    IF self.status = CANCELLED THEN "ValueError" ELSE NoError

(* The outcome of a call, or of one statement of a call: the object as the *)
(* call leaves it, the exception raised (NoError when none), the value     *)
(* returned, and the line at which the call continues (done when it has    *)
(* returned or raised).                                                    *)
Outcome(self, pc, done, exc, ret) ==
    [self |-> self, pc |-> pc, done |-> done, exc |-> exc, ret |-> ret]
Raise(self, exc) == Outcome(self, 0, TRUE, exc, None)
Return(self, ret) == Outcome(self, 0, TRUE, NoError, ret)
Goto(self, pc) == Outcome(self, pc, FALSE, NoError, None)

\* collect_sample without the _log call of line 145
collect_sample_unlogged(self, when, now) ==
    IF _ensure_not_cancelled(self) # NoError THEN Raise(self, _ensure_not_cancelled(self))
    ELSE IF self.status \in {CANCELLED, COMPLETED} THEN Raise(self, "ValueError")
    ELSE LET at == IF when # None THEN when ELSE now
             s1 == [self EXCEPT !.collected_at = at]
             s2 == [s1 EXCEPT !.status = COLLECTED]
         IN  Return(s2, None)

\* collect_sample without the assignment of line 143
collect_sample_unstamped(self, when, now) ==
    IF _ensure_not_cancelled(self) # NoError THEN Raise(self, _ensure_not_cancelled(self))
    ELSE IF self.status \in {CANCELLED, COMPLETED} THEN Raise(self, "ValueError")
    ELSE LET at == IF when # None THEN when ELSE now
             s2 == [self EXCEPT !.status = COLLECTED]
         IN  Return(_log(s2, "COLLECT", [collected_at |-> isoformat(at)]), None)

\* LabTest.collect_sample(when); now is what datetime.now() returns
collect_sample(self, when, now) ==
    IF _ensure_not_cancelled(self) # NoError THEN Raise(self, _ensure_not_cancelled(self))
    ELSE IF self.status \in {CANCELLED, COMPLETED} THEN Raise(self, "ValueError")
    ELSE LET at == IF when # None THEN when ELSE now
             s1 == [self EXCEPT !.collected_at = at]
             s2 == [s1 EXCEPT !.status = COLLECTED]
         IN  Return(_log(s2, "COLLECT", [collected_at |-> isoformat(s2.collected_at)]), None)

\* start_processing without the status check of line 149
start_processing_unchecked(self) ==
    IF _ensure_not_cancelled(self) # NoError THEN Raise(self, _ensure_not_cancelled(self))
    ELSE LET s1 == [self EXCEPT !.status = IN_PROGRESS]
         IN  Return(_log(s1, "START", [status |-> s1.status]), None)

\* LabTest.start_processing()
start_processing(self) ==
    IF _ensure_not_cancelled(self) # NoError THEN Raise(self, _ensure_not_cancelled(self))
    ELSE IF self.status \notin {COLLECTED, ORDERED} THEN Raise(self, "ValueError")
    ELSE LET s1 == [self EXCEPT !.status = IN_PROGRESS]
         IN  Return(_log(s1, "START", [status |-> s1.status]), None)

\* cancel without the COMPLETED check of line 155
cancel_stmt_unchecked(self, pc, reason) ==
    CASE pc = 155 -> Goto(self, 157)
      [] pc = 157 -> Goto([self EXCEPT !.status = CANCELLED], 158)
      [] pc = 158 -> Return(_log(self, "CANCEL", [reason |-> reason]), None)

\* cancel that refuses every terminal status at line 155
cancel_stmt_terminal(self, pc, reason) ==
    CASE pc = 155 -> IF self.status \in {COMPLETED, CANCELLED} THEN Raise(self, "ValueError") ELSE Goto(self, 157)
      [] pc = 157 -> Goto([self EXCEPT !.status = CANCELLED], 158)
      [] pc = 158 -> Return(_log(self, "CANCEL", [reason |-> reason]), None)

\* LabTest.cancel(reason), statement by statement; pc is the line of base.py
cancel_stmt(self, pc, reason) ==
    CASE pc = 155 -> IF self.status = COMPLETED THEN Raise(self, "ValueError") ELSE Goto(self, 157)
      [] pc = 157 -> Goto([self EXCEPT !.status = CANCELLED], 158)
      [] pc = 158 -> Return(_log(self, "CANCEL", [reason |-> reason]), None)

RECURSIVE cancel_from(_, _, _)
cancel_from(self, pc, reason) ==
    LET r == cancel_stmt(self, pc, reason)
    IN  IF r.done THEN r ELSE cancel_from(r.self, r.pc, reason)

\* LabTest.cancel(reason), as one uninterrupted call
cancel(self, reason) == cancel_from(self, 155, reason)

\* set_result that validates after it has stored the result and the note
set_result_stmt_late_validation(self, pc, result, note, now) ==
    CASE pc = 167 -> IF _ensure_not_cancelled(self) # NoError
                     THEN Raise(self, _ensure_not_cancelled(self)) ELSE Goto(self, 168)
      [] pc = 168 -> IF self.status # IN_PROGRESS THEN Raise(self, "ValueError") ELSE Goto(self, 173)
      [] pc = 173 -> Goto([self EXCEPT !.result = result], 174)
      [] pc = 174 -> Goto([self EXCEPT !.result_note = strip(note)], 172)
      [] pc = 172 -> IF validate_result(self, result) # NoError
                     THEN Raise(self, validate_result(self, result)) ELSE Goto(self, 176)
      [] pc = 176 -> Goto([self EXCEPT !.result_status = evaluate_criticality(self, result)], 177)
      [] pc = 177 -> Goto([self EXCEPT !.completed_at = now], 178)
      [] pc = 178 -> Goto([self EXCEPT !.status = COMPLETED], 180)
      [] pc = 180 -> Goto(_log(self, "RESULT", [result_status |-> self.result_status,
                                                completed_at |-> isoformat(self.completed_at)]), 187)
      [] pc = 187 -> Return(self, self.result_status)

\* set_result without the assignment of line 178
set_result_stmt_status_kept(self, pc, result, note, now) ==
    CASE pc = 167 -> IF _ensure_not_cancelled(self) # NoError
                     THEN Raise(self, _ensure_not_cancelled(self)) ELSE Goto(self, 168)
      [] pc = 168 -> IF self.status # IN_PROGRESS THEN Raise(self, "ValueError") ELSE Goto(self, 172)
      [] pc = 172 -> IF validate_result(self, result) # NoError
                     THEN Raise(self, validate_result(self, result)) ELSE Goto(self, 173)
      [] pc = 173 -> Goto([self EXCEPT !.result = result], 174)
      [] pc = 174 -> Goto([self EXCEPT !.result_note = strip(note)], 176)
      [] pc = 176 -> Goto([self EXCEPT !.result_status = evaluate_criticality(self, result)], 177)
      [] pc = 177 -> Goto([self EXCEPT !.completed_at = now], 178)
      [] pc = 178 -> Goto(self, 180)
      [] pc = 180 -> Goto(_log(self, "RESULT", [result_status |-> self.result_status,
                                                completed_at |-> isoformat(self.completed_at)]), 187)
      [] pc = 187 -> Return(self, self.result_status)

\* set_result without the status check of line 168
set_result_stmt_any_status(self, pc, result, note, now) ==
    CASE pc = 167 -> IF _ensure_not_cancelled(self) # NoError
                     THEN Raise(self, _ensure_not_cancelled(self)) ELSE Goto(self, 168)
      [] pc = 168 -> Goto(self, 172)
      [] pc = 172 -> IF validate_result(self, result) # NoError
                     THEN Raise(self, validate_result(self, result)) ELSE Goto(self, 173)
      [] pc = 173 -> Goto([self EXCEPT !.result = result], 174)
      [] pc = 174 -> Goto([self EXCEPT !.result_note = strip(note)], 176)
      [] pc = 176 -> Goto([self EXCEPT !.result_status = evaluate_criticality(self, result)], 177)
      [] pc = 177 -> Goto([self EXCEPT !.completed_at = now], 178)
      [] pc = 178 -> Goto([self EXCEPT !.status = COMPLETED], 180)
      [] pc = 180 -> Goto(_log(self, "RESULT", [result_status |-> self.result_status,
                                                completed_at |-> isoformat(self.completed_at)]), 187)
      [] pc = 187 -> Return(self, self.result_status)

\* LabTest.set_result(result, note), statement by statement; pc is the line
\* of base.py, now is what datetime.now() returns at line 177
set_result_stmt(self, pc, result, note, now) ==
    CASE pc = 167 -> IF _ensure_not_cancelled(self) # NoError
                     THEN Raise(self, _ensure_not_cancelled(self)) ELSE Goto(self, 168)
      [] pc = 168 -> IF self.status # IN_PROGRESS THEN Raise(self, "ValueError") ELSE Goto(self, 172)
      [] pc = 172 -> IF validate_result(self, result) # NoError
                     THEN Raise(self, validate_result(self, result)) ELSE Goto(self, 173)
      [] pc = 173 -> Goto([self EXCEPT !.result = result], 174)
      [] pc = 174 -> Goto([self EXCEPT !.result_note = strip(note)], 176)
      [] pc = 176 -> Goto([self EXCEPT !.result_status = evaluate_criticality(self, result)], 177)
      [] pc = 177 -> Goto([self EXCEPT !.completed_at = now], 178)
      [] pc = 178 -> Goto([self EXCEPT !.status = COMPLETED], 180)
      [] pc = 180 -> Goto(_log(self, "RESULT", [result_status |-> self.result_status,
                                                completed_at |-> isoformat(self.completed_at)]), 187)
      [] pc = 187 -> Return(self, self.result_status)

RECURSIVE set_result_from(_, _, _, _, _)
set_result_from(self, pc, result, note, now) ==
    LET r == set_result_stmt(self, pc, result, note, now)
    IN  IF r.done THEN r ELSE set_result_from(r.self, r.pc, result, note, now)

\* LabTest.set_result(result, note), as one uninterrupted call
set_result(self, result, note, now) == set_result_from(self, 167, result, note, now)

\* ReferenceRange.describe: the text f"{low}-{high} {unit}"
describe(ref) == [kind |-> "describe", low |-> ref.low, high |-> ref.high, unit |-> ref.unit]

\* x.isoformat() if x else None
isoformat_or_None(x) == IF x # None THEN isoformat(x) ELSE None

\* summary that writes an audit entry for the read
LabTest_summary_logging(self) ==
    Return(_log(self, "SUMMARY", [status |-> self.status]),
           [test_id |-> self.test_id,
            patient_id |-> self.patient_id,
            test_type |-> self.test_type,
            status |-> self.status,
            collected_at |-> isoformat_or_None(self.collected_at),
            completed_at |-> isoformat_or_None(self.completed_at),
            result_status |-> self.result_status,
            result_note |-> self.result_note])

\* LabTest.summary: the dict it returns, by key
LabTest_summary(self) ==
    Return(self,
           [test_id |-> self.test_id,
            patient_id |-> self.patient_id,
            test_type |-> self.test_type,
            status |-> self.status,
            collected_at |-> isoformat_or_None(self.collected_at),
            completed_at |-> isoformat_or_None(self.completed_at),
            result_status |-> self.result_status,
            result_note |-> self.result_note])

\* BloodTest.summary
BloodTest_summary(self) ==
    LET r == LabTest_summary(self)
        base == r.ret @@ [reference |-> describe(r.self.reference)]
        result == r.self.result
    IN  Return(r.self,
               IF result # None /\ result.kind = "NumericResult"
               THEN base @@ [result_value |-> result.value, result_unit |-> result.unit]
               ELSE IF result # None /\ result.kind = "dict" /\ result.items # <<>>
               THEN base @@ [result_value |-> IF HasKey(result, "value") THEN GetItem(result, "value") ELSE None,
                             result_unit |-> IF HasKey(result, "unit") THEN GetItem(result, "unit") ELSE None]
               ELSE base)

\* ImagingTest.summary and BiopsyTest.summary add constructor arguments only
ImagingTest_summary(self) == LabTest_summary(self)
BiopsyTest_summary(self) == LabTest_summary(self)

\* dynamic dispatch of summary()
summary(self) ==
    CASE self.cls = "BloodTest" -> BloodTest_summary(self)
      [] self.cls = "ImagingTest" -> ImagingTest_summary(self)
      [] self.cls = "BiopsyTest" -> BiopsyTest_summary(self)

\* NumericResult.as_dict() for a NumericResult, any other result as it is
as_dict_or_same(result) ==
    IF result # None /\ result.kind = "NumericResult"
    THEN dict(<< <<"value", result.value>>, <<"unit", result.unit>> >>)
    ELSE result

\* _serialize that writes a NumericResult only, and no other result
_serialize_numeric_only(self) ==
    LET r == summary(self)
    IN  Return(r.self,
               [x \in {"__class__", "result"} |->
                   IF x = "__class__" THEN self.cls
                   ELSE IF r.self.result # None /\ r.self.result.kind = "NumericResult"
                        THEN as_dict_or_same(r.self.result)
                        ELSE None] @@ r.ret)

\* JsonFileLabTestRepository._serialize: summary() with the class name and
\* the result added
_serialize(self) ==
    LET r == summary(self)
    IN  Return(r.self,
               [x \in {"__class__", "result"} |->
                   IF x = "__class__" THEN self.cls ELSE as_dict_or_same(r.self.result)] @@ r.ret)

\* LabTest.audit_trail: a copy of the list
audit_trail(self) == Return(self, self.audit)

-----------------------------------------------------------------------------
(* Python dicts as functions with a growing and shrinking domain.          *)

EmptyDict == [k \in {} |-> None]
Put(d, k, v) == [x \in (DOMAIN d) \cup {k} |-> IF x = k THEN v ELSE d[x]]
Pop(d, k) == [x \in (DOMAIN d) \ {k} |-> d[x]]

-----------------------------------------------------------------------------
(* InMemoryLabTestRepository (repository.py).  A repository value R is the *)
(* record of its four fields; h is the heap the call reads objects from;   *)
(* ref is the reference of the LabTest passed in.                          *)

Repository == [tests |-> tests, index_patient |-> index_patient,
               index_type |-> index_type, history |-> history]

\* InMemoryLabTestRepository.__init__
Repo_init == [tests |-> EmptyDict, index_patient |-> EmptyDict,
              index_type |-> EmptyDict, history |-> <<>>]

\* InMemoryLabTestRepository._index_add
_index_add(R, test) ==
    LET ip == IF test.patient_id \in DOMAIN R.index_patient
              THEN R.index_patient ELSE Put(R.index_patient, test.patient_id, {})
        it == IF test.test_type \in DOMAIN R.index_type
              THEN R.index_type ELSE Put(R.index_type, test.test_type, {})
    IN  [R EXCEPT !.index_patient = [ip EXCEPT ![test.patient_id] = @ \cup {test.test_id}],
                  !.index_type = [it EXCEPT ![test.test_type] = @ \cup {test.test_id}]]

\* _index_remove without the discard of line 83
_index_remove_patient_only(R, test) ==
    [R EXCEPT !.index_patient = IF test.patient_id \in DOMAIN @
                                THEN [@ EXCEPT ![test.patient_id] = @ \ {test.test_id}] ELSE @]

\* InMemoryLabTestRepository._index_remove
_index_remove(R, test) ==
    [R EXCEPT !.index_patient = IF test.patient_id \in DOMAIN @
                                THEN [@ EXCEPT ![test.patient_id] = @ \ {test.test_id}] ELSE @,
              !.index_type = IF test.test_type \in DOMAIN @
                             THEN [@ EXCEPT ![test.test_type] = @ \ {test.test_id}] ELSE @]

\* _log that inserts the record at the front of the history
Repo_log_front(R, action, test_id) ==
    [R EXCEPT !.history = <<[action |-> action, test_id |-> test_id]>> \o @]

\* InMemoryLabTestRepository._log
Repo_log(R, action, test_id) ==
    [R EXCEPT !.history = Append(@, [action |-> action, test_id |-> test_id])]

RepoOutcome(R, ret) == [R |-> R, ret |-> ret]

\* add without the duplicate check of lines 22-23
Repo_add_overwriting(R, h, ref) ==
    LET test == h[ref.at]
        R1 == [R EXCEPT !.tests = Put(@, test.test_id, ref)]
        R2 == _index_add(R1, test)
    IN  RepoOutcome(Repo_log(R2, "ADD", test.test_id), TRUE)

\* InMemoryLabTestRepository.add
Repo_add(R, h, ref) ==
    LET test == h[ref.at]
    IN  IF test.test_id \in DOMAIN R.tests THEN RepoOutcome(R, FALSE)
        ELSE LET R1 == [R EXCEPT !.tests = Put(@, test.test_id, ref)]
                 R2 == _index_add(R1, test)
             IN  RepoOutcome(Repo_log(R2, "ADD", test.test_id), TRUE)

\* update without the _index_remove(old) of line 33
Repo_update_keeping_index(R, h, ref) ==
    LET test == h[ref.at]
    IN  IF test.test_id \notin DOMAIN R.tests THEN RepoOutcome(R, FALSE)
        ELSE LET R2 == [R EXCEPT !.tests = Put(@, test.test_id, ref)]
                 R3 == _index_add(R2, test)
             IN  RepoOutcome(Repo_log(R3, "UPDATE", test.test_id), TRUE)

\* InMemoryLabTestRepository.update
Repo_update(R, h, ref) ==
    LET test == h[ref.at]
    IN  IF test.test_id \notin DOMAIN R.tests THEN RepoOutcome(R, FALSE)
        ELSE LET old == h[R.tests[test.test_id].at]
                 R1 == _index_remove(R, old)
                 R2 == [R1 EXCEPT !.tests = Put(@, test.test_id, ref)]
                 R3 == _index_add(R2, test)
             IN  RepoOutcome(Repo_log(R3, "UPDATE", test.test_id), TRUE)

\* delete that reads the entry (get) where line 42 pops it
Repo_delete_keeping_entry(R, h, test_id) ==
    IF test_id \notin DOMAIN R.tests THEN RepoOutcome(R, FALSE)
    ELSE LET test == h[R.tests[test_id].at]
             R2 == _index_remove(R, test)
         IN  RepoOutcome(Repo_log(R2, "DELETE", test_id), TRUE)

\* InMemoryLabTestRepository.delete
Repo_delete(R, h, test_id) ==
    IF test_id \notin DOMAIN R.tests THEN RepoOutcome(R, FALSE)
    ELSE LET test == h[R.tests[test_id].at]
             R1 == [R EXCEPT !.tests = Pop(@, test_id)]
             R2 == _index_remove(R1, test)
         IN  RepoOutcome(Repo_log(R2, "DELETE", test_id), TRUE)

\* One statement of add, update or delete, for a call th = Thread(pc, ...)
\* whose args hold the operation (op), the argument object (at) or id (id)
\* and the local variable old / test (local).  pc is the source line: 22-26
\* add, 30-36 update, 40-44 delete, 78-79 _index_add, 82-83 _index_remove;
\* the log line and the return after it are one step.
Repo_stmt(R, h, th) ==
    LET op == th.args.op
        id == th.args.id
        pc == th.pc
        goto(R1, pc1) == [R |-> R1, th |-> [th EXCEPT !.pc = pc1]]
        return(R1, v) == [R |-> R1, th |-> [th EXCEPT !.done = TRUE, !.ret = v]]
        raise(e) == [R |-> R, th |-> [th EXCEPT !.done = TRUE, !.exc = e]]
        bind(v, pc1) == [R |-> R, th |-> [th EXCEPT !.pc = pc1, !.args.local = v]]
    IN  CASE pc = 22 -> IF id \in DOMAIN R.tests THEN return(R, FALSE) ELSE goto(R, 24)
          [] pc = 24 -> goto([R EXCEPT !.tests = Put(@, id, Ref(th.args.at))], 78)
          [] pc = 30 -> IF id \notin DOMAIN R.tests THEN return(R, FALSE) ELSE goto(R, 32)
          [] pc = 32 -> IF id \in DOMAIN R.tests THEN bind(R.tests[id], 82) ELSE raise("KeyError")
          [] pc = 34 -> goto([R EXCEPT !.tests = Put(@, id, Ref(th.args.at))], 78)
          [] pc = 40 -> IF id \notin DOMAIN R.tests THEN return(R, FALSE) ELSE goto(R, 42)
          [] pc = 42 -> IF id \in DOMAIN R.tests
                        THEN [R |-> [R EXCEPT !.tests = Pop(@, id)],
                              th |-> [th EXCEPT !.pc = 82, !.args.local = R.tests[id]]]
                        ELSE raise("KeyError")
          [] pc = 78 -> LET test == h[th.args.at]
                            ip == IF test.patient_id \in DOMAIN R.index_patient
                                  THEN R.index_patient ELSE Put(R.index_patient, test.patient_id, {})
                        IN  goto([R EXCEPT !.index_patient = [ip EXCEPT ![test.patient_id] = @ \cup {test.test_id}]], 79)
          [] pc = 79 -> LET test == h[th.args.at]
                            it == IF test.test_type \in DOMAIN R.index_type
                                  THEN R.index_type ELSE Put(R.index_type, test.test_type, {})
                        IN  goto([R EXCEPT !.index_type = [it EXCEPT ![test.test_type] = @ \cup {test.test_id}]],
                                 IF op = "add" THEN 26 ELSE 36)
          [] pc = 82 -> LET test == h[th.args.local.at]
                        IN  goto([R EXCEPT !.index_patient = IF test.patient_id \in DOMAIN @
                                      THEN [@ EXCEPT ![test.patient_id] = @ \ {test.test_id}] ELSE @], 83)
          [] pc = 83 -> LET test == h[th.args.local.at]
                        IN  goto([R EXCEPT !.index_type = IF test.test_type \in DOMAIN @
                                      THEN [@ EXCEPT ![test.test_type] = @ \ {test.test_id}] ELSE @],
                                 IF op = "update" THEN 34 ELSE 44)
          [] pc = 26 -> return(Repo_log(R, "ADD", id), TRUE)
          [] pc = 36 -> return(Repo_log(R, "UPDATE", id), TRUE)
          [] pc = 44 -> return(Repo_log(R, "DELETE", id), TRUE)

\* the first line of each method
FirstLine(op) == CASE op = "add" -> 22 [] op = "update" -> 30 [] op = "delete" -> 40

\* InMemoryLabTestRepository.get: the reference stored under test_id, or None
Repo_get(R, test_id) == IF test_id \in DOMAIN R.tests THEN R.tests[test_id] ELSE None

\* The list-valued reads return the set of the references in the list; the
\* order of the list (dict and set iteration order) is not part of the value.

\* InMemoryLabTestRepository.list_all
Repo_list_all(R) == RepoOutcome(R, {R.tests[k] : k \in DOMAIN R.tests})

\* find_by_patient with setdefault where line 54 has get
Repo_find_by_patient_setdefault(R, patient_id) ==
    LET R1 == IF patient_id \in DOMAIN R.index_patient THEN R
              ELSE [R EXCEPT !.index_patient = Put(@, patient_id, {})]
        ids == R1.index_patient[patient_id]
    IN  RepoOutcome(R1, {R1.tests[i] : i \in {j \in ids : j \in DOMAIN R1.tests}})

\* InMemoryLabTestRepository.find_by_patient
Repo_find_by_patient(R, patient_id) ==
    LET ids == IF patient_id \in DOMAIN R.index_patient THEN R.index_patient[patient_id] ELSE {}
    IN  RepoOutcome(R, {R.tests[i] : i \in {j \in ids : j \in DOMAIN R.tests}})

\* InMemoryLabTestRepository.filter_by_type
Repo_filter_by_type(R, test_type) ==
    LET key == strip(test_type)
        ids == IF key \in DOMAIN R.index_type THEN R.index_type[key] ELSE {}
    IN  RepoOutcome(R, {R.tests[i] : i \in {j \in ids : j \in DOMAIN R.tests}})

\* InMemoryLabTestRepository.filter_by_status
Repo_filter_by_status(R, h, status) ==
    RepoOutcome(R, {R.tests[k] : k \in {j \in DOMAIN R.tests : h[R.tests[j].at].status = status}})

\* critical_results selecting by status instead of result_status
Repo_critical_results_by_status(R, h) ==
    RepoOutcome(R, {R.tests[k] : k \in {j \in DOMAIN R.tests : h[R.tests[j].at].status = COMPLETED}})

\* InMemoryLabTestRepository.critical_results
Repo_critical_results(R, h) ==
    RepoOutcome(R, {R.tests[k] : k \in {j \in DOMAIN R.tests : h[R.tests[j].at].result_status = CRITICAL}})

\* Python's s[start:] on a list: a negative start counts from the end, and
\* the start is clamped to 0..len(s)
slice_from(s, start) ==
    LET n == Len(s)
        i == IF start < 0 THEN (IF start + n < 0 THEN 0 ELSE start + n)
             ELSE (IF start > n THEN n ELSE start)
    IN  SubSeq(s, i + 1, n)

\* InMemoryLabTestRepository.history: self._history[-limit:]
Repo_history(R, limit) == RepoOutcome(R, slice_from(R.history, 0 - limit))

-----------------------------------------------------------------------------
(* LabTestService (implementations.py).                                    *)

FirstCounter == 10000

\* _next_id that returns the counter without advancing it
_next_id_kept(counter) == counter

\* LabTestService._next_id: the counter after the call, which is the id issued
_next_id(counter) == counter + 1

\* LabTestService._must_get: the exception it raises, or NoError
_must_get(R, test_id) == IF Repo_get(R, test_id) = None THEN "KeyError" ELSE NoError

(* The outcome of a service call: the heap and the repository as the call  *)
(* leaves them, the exception raised, the value returned.                  *)
SvcOutcome(h, R, exc, ret) == [h |-> h, R |-> R, exc |-> exc, ret |-> ret]

\* The shape shared by LabTestService.collect_sample, start_processing,
\* enter_result and cancel_test: _must_get, the LabTest method, then
\* repository.update; an exception of either of the first two ends the call.
\* Svc_missing is the call ended by _must_get; Svc_update is the rest of the
\* call once the method has run on the object at ref with outcome r.
Svc_missing(R, h, test_id) == SvcOutcome(h, R, _must_get(R, test_id), None)

\* (Svc_update_unsaved is Svc_update without the repository.update call)
Svc_update_unsaved(R, h, ref, r) ==
    LET h1 == [h EXCEPT ![ref.at] = r.self]
    IN  IF r.exc # NoError THEN SvcOutcome(h1, R, r.exc, None)
        ELSE SvcOutcome(h1, R, NoError, r.ret)

Svc_update(R, h, ref, r) ==
    LET h1 == [h EXCEPT ![ref.at] = r.self]
    IN  IF r.exc # NoError THEN SvcOutcome(h1, R, r.exc, None)
        ELSE SvcOutcome(h1, Repo_update(R, h1, ref).R, NoError, r.ret)

\* LabTestService.collect_sample
Svc_collect_sample(R, h, test_id, now) ==
    IF _must_get(R, test_id) # NoError THEN Svc_missing(R, h, test_id)
    ELSE Svc_update(R, h, Repo_get(R, test_id), collect_sample(h[Repo_get(R, test_id).at], None, now))

\* LabTestService.start_processing
Svc_start_processing(R, h, test_id) ==
    IF _must_get(R, test_id) # NoError THEN Svc_missing(R, h, test_id)
    ELSE Svc_update(R, h, Repo_get(R, test_id), start_processing(h[Repo_get(R, test_id).at]))

\* LabTestService.enter_result
Svc_enter_result(R, h, test_id, result, note, now) ==
    IF _must_get(R, test_id) # NoError THEN Svc_missing(R, h, test_id)
    ELSE Svc_update(R, h, Repo_get(R, test_id), set_result(h[Repo_get(R, test_id).at], result, note, now))

\* LabTestService.cancel_test
Svc_cancel_test(R, h, test_id, reason) ==
    IF _must_get(R, test_id) # NoError THEN Svc_missing(R, h, test_id)
    ELSE Svc_update(R, h, Repo_get(R, test_id), cancel(h[Repo_get(R, test_id).at], reason))

-----------------------------------------------------------------------------
(* CachedLabTestRepository (repository.py).  A cache value K is the record *)
(* of _cache and _hits; _hits is a dict whose iteration order matters, a   *)
(* sequence of [k, n] entries in insertion order.                          *)

CacheLayer == [cache |-> cache, hits |-> hits]

\* CachedLabTestRepository.__init__: _capacity = max(1, int(capacity))
_capacity == IF capacity >= 1 THEN capacity ELSE 1
Cache_init == [cache |-> EmptyDict, hits |-> <<>>]

HitKeys(hs) == {hs[i].k : i \in 1..Len(hs)}
\* hs.get(k, 0)
HitGet(hs, k) == IF k \in HitKeys(hs) THEN hs[CHOOSE i \in 1..Len(hs) : hs[i].k = k].n ELSE 0
\* hs[k] = n: in place for a present key, at the end for a new one
HitSet(hs, k, n) ==
    IF k \in HitKeys(hs) THEN [i \in 1..Len(hs) |-> IF hs[i].k = k THEN [k |-> k, n |-> n] ELSE hs[i]]
    ELSE Append(hs, [k |-> k, n |-> n])
\* hs.pop(k, None)
HitPop(hs, k) == SelectSeq(hs, LAMBDA e : e.k # k)

\* the entry with the smallest id among those whose count is minimal
MinHit_smallest_id(hs) ==
    CHOOSE k \in HitKeys(hs) :
        /\ \A j \in 1..Len(hs) : HitGet(hs, k) <= hs[j].n
        /\ \A j \in 1..Len(hs) : hs[j].n = HitGet(hs, k) => k <= hs[j].k

\* min(self._hits.items(), key=lambda kv: kv[1])[0]: the first entry, in
\* iteration order, whose count is minimal
MinHit(hs) == hs[CHOOSE i \in 1..Len(hs) :
                    /\ \A j \in 1..Len(hs) : hs[i].n <= hs[j].n
                    /\ \A j \in 1..(i - 1) : hs[j].n > hs[i].n].k

\* _evict that removes the oldest counter's entry, whatever its count
_evict_oldest(K) ==
    IF K.hits = <<>> THEN [K EXCEPT !.cache = EmptyDict]
    ELSE LET victim == K.hits[1].k
         IN  [cache |-> Pop(K.cache, victim), hits |-> HitPop(K.hits, victim)]

\* CachedLabTestRepository._evict
_evict(K) ==
    IF K.hits = <<>> THEN [K EXCEPT !.cache = EmptyDict]
    ELSE LET victim == MinHit(K.hits)
         IN  [cache |-> Pop(K.cache, victim), hits |-> HitPop(K.hits, victim)]

\* _cache_put without the eviction of lines 200-201
_cache_put_unbounded(K, test_id, ref) ==
    [cache |-> Put(K.cache, test_id, ref),
     hits |-> HitSet(K.hits, test_id, HitGet(K.hits, test_id) + 1)]

\* CachedLabTestRepository._cache_put
_cache_put(K, test_id, ref) ==
    LET K1 == IF Cardinality(DOMAIN K.cache) >= _capacity THEN _evict(K) ELSE K
    IN  [cache |-> Put(K1.cache, test_id, ref),
         hits |-> HitSet(K1.hits, test_id, HitGet(K1.hits, test_id) + 1)]

CacheOutcome(K, R, ret) == [K |-> K, R |-> R, ret |-> ret]

\* get that answers from the cache only
Cache_get_cache_only(K, R, test_id) ==
    IF test_id \in DOMAIN K.cache
    THEN CacheOutcome([K EXCEPT !.hits = HitSet(@, test_id, HitGet(@, test_id) + 1)], R, K.cache[test_id])
    ELSE CacheOutcome(K, R, None)

\* get whose hit leaves the counter as it was (without line 179)
Cache_get_hit_uncounted(K, R, test_id) ==
    IF test_id \in DOMAIN K.cache
    THEN CacheOutcome(K, R, K.cache[test_id])
    ELSE LET test == Repo_get(R, test_id)
         IN  IF test # None THEN CacheOutcome(_cache_put(K, test_id, test), R, test)
             ELSE CacheOutcome(K, R, test)

\* CachedLabTestRepository.get
Cache_get(K, R, test_id) ==
    IF test_id \in DOMAIN K.cache
    THEN CacheOutcome([K EXCEPT !.hits = HitSet(@, test_id, HitGet(@, test_id) + 1)], R, K.cache[test_id])
    ELSE LET test == Repo_get(R, test_id)
         IN  IF test # None THEN CacheOutcome(_cache_put(K, test_id, test), R, test)
             ELSE CacheOutcome(K, R, test)

\* CachedLabTestRepository.add
Cache_add(K, R, h, ref) ==
    LET r == Repo_add(R, h, ref)
    IN  IF r.ret THEN CacheOutcome(_cache_put(K, h[ref.at].test_id, ref), r.R, r.ret)
        ELSE CacheOutcome(K, r.R, r.ret)

\* delete without the pop of line 196
Cache_delete_keeping_counter(K, R, h, test_id) ==
    LET r == Repo_delete(R, h, test_id)
    IN  IF r.ret THEN CacheOutcome([K EXCEPT !.cache = Pop(@, test_id)], r.R, r.ret)
        ELSE CacheOutcome(K, r.R, r.ret)

\* CachedLabTestRepository.delete
Cache_delete(K, R, h, test_id) ==
    LET r == Repo_delete(R, h, test_id)
    IN  IF r.ret THEN CacheOutcome([cache |-> Pop(K.cache, test_id), hits |-> HitPop(K.hits, test_id)], r.R, r.ret)
        ELSE CacheOutcome(K, r.R, r.ret)

-----------------------------------------------------------------------------
(* AlertService (implementations.py).  An alert service value A is the     *)
(* record of its two fields.  A CriticalAlert's created_at is not part of  *)
(* the state; its message is the three values the f-string formats.        *)

AlertService == [alerts |-> alerts, alert_counter |-> alert_counter]

\* AlertService.__init__
Alert_init == [alerts |-> <<>>, alert_counter |-> 1]

\* AlertService._severity_from_test
_severity_from_test(test) == IF test.cls \in {"ImagingTest", "BiopsyTest"} THEN "HIGH" ELSE "MEDIUM"

\* AlertService._message_for_test
_message_for_test(test) == [test_id |-> test.test_id, type |-> test.test_type, patient_id |-> test.patient_id]

\* CriticalAlert(...), acknowledged left at its default
CriticalAlert(alert_id, test_id, patient_id, severity, message) ==
    [alert_id |-> alert_id, test_id |-> test_id, patient_id |-> patient_id,
     severity |-> severity, message |-> message, acknowledged |-> FALSE]

AlertOutcome(A, ret) == [A |-> A, ret |-> ret]

\* maybe_create_alert that does not advance the counter
maybe_create_alert_counter_kept(A, test) ==
    IF test.result_status # CRITICAL THEN AlertOutcome(A, None)
    ELSE LET alert == CriticalAlert(A.alert_counter, test.test_id, test.patient_id,
                                    _severity_from_test(test), _message_for_test(test))
         IN  AlertOutcome([A EXCEPT !.alerts = Append(@, alert)], alert)

\* AlertService.maybe_create_alert
maybe_create_alert(A, test) ==
    IF test.result_status # CRITICAL THEN AlertOutcome(A, None)
    ELSE LET alert == CriticalAlert(A.alert_counter, test.test_id, test.patient_id,
                                    _severity_from_test(test), _message_for_test(test))
         IN  AlertOutcome([alerts |-> Append(A.alerts, alert), alert_counter |-> A.alert_counter + 1], alert)

\* AlertService.list_unacknowledged
unacknowledged(a) == ~a.acknowledged
list_unacknowledged(A) == AlertOutcome(A, SelectSeq(A.alerts, unacknowledged))

\* AlertService.acknowledge: the first alert with the id is acknowledged
acknowledge(A, alert_id) ==
    IF \E i \in 1..Len(A.alerts) : A.alerts[i].alert_id = alert_id
    THEN LET i == CHOOSE i \in 1..Len(A.alerts) :
                     /\ A.alerts[i].alert_id = alert_id
                     /\ \A j \in 1..(i - 1) : A.alerts[j].alert_id # alert_id
         IN  AlertOutcome([A EXCEPT !.alerts[i].acknowledged = TRUE], TRUE)
    ELSE AlertOutcome(A, FALSE)

-----------------------------------------------------------------------------
(* The inputs the calls are issued with.                                   *)

s_mg_dL == <<"m", "g", "/", "d", "L">>
s_mg_dL_padded == <<" ", "m", "g", "/", "d", "L", " ">>
s_biochem == <<"B", "i", "o", "c", "h", "e", "m">>
s_xray == <<" ", "x", " ", "r", "a", "y", " ">>
s_punch == <<"p", "u", "n", "c", "h">>
s_note == <<" ", "o", "k", " ">>
s_reason == <<"t", "a", "l", "e", "p">>
s_report_critical == <<"K", "a", "n", "a", "m", "a", " ", "m", "e", "v", "c", "u", "t">>
s_report_padded == <<" ", " ", " ", "m", "i", "l", "d", " ", " ", " ", " ", " ">>
s_mass == <<"m", "a", "s", "s">>
s_effect == <<"e", "f", "f", "e", "c", "t">>
s_diag_atypia == <<"a", "t", "y", "p", "i", "a">>
s_diag_short == <<" ", "o", "k", " ", " ">>

\* the glucose range of BloodTest.default_glucose and of the tests
GlucoseRange == ReferenceRange(70, 110, s_mg_dL)

Classes == {"BloodTest", "ImagingTest", "BiopsyTest"}

BloodResults ==
    { NumericResult(90, s_mg_dL),                           \* inside the range
      NumericResult(250, s_mg_dL_padded),                   \* far above, unit padded
      NumericResult(0 - 5, s_mg_dL),                        \* negative
      dict(<< <<"value", 65>> >>) }                         \* no unit

TextResults ==
    { str(s_report_critical),
      str(s_report_padded),                                 \* too short once stripped
      dict(<< <<"findings", s_mass>>, <<"impression", s_effect>> >>),
      dict(<< <<"diagnosis", s_diag_atypia>> >>),
      dict(<< <<"diagnosis", s_diag_short>> >>) }           \* diagnosis too short

Results == BloodResults \cup TextResults \cup {int(5)}
Notes == {<<>>, s_note}
Reasons == {<<>>, s_reason}
Whens == {None} \cup Times

Addr == 1..MaxObj

\* what datetime.now() may return in a call; a call that does not read the
\* clock is issued once
Nows(reads_clock) == IF reads_clock THEN Times ELSE {datetime(1)}

\* the object constructed for class cls with the given ids
NewTest(cls, test_id, patient_id) ==
    CASE cls = "BloodTest" -> BloodTest(test_id, patient_id, s_biochem, GlucoseRange)
      [] cls = "ImagingTest" -> ImagingTest(test_id, patient_id, s_xray)
      [] cls = "BiopsyTest" -> BiopsyTest(test_id, patient_id, s_punch)

NoArgs == [none |-> TRUE]
Call(op, at, id, args, exc, ret) ==
    [op |-> op, at |-> at, id |-> id, args |-> args, exc |-> exc, ret |-> ret]

\* one of the two racing calls: the line it is at, whether it has returned or
\* raised, its exception and return value, and its arguments
Thread(pc, done, exc, ret, args) == [pc |-> pc, done |-> done, exc |-> exc, ret |-> ret, args |-> args]
Idle == [s |-> Thread(0, TRUE, NoError, None, NoArgs), c |-> Thread(0, TRUE, NoError, None, NoArgs)]

\* a call that appends to the audit trail is issued while the trail is short
AuditRoom(a, r) == IF r.self.audit = heap[a].audit THEN TRUE ELSE Len(heap[a].audit) < MaxAudit

-----------------------------------------------------------------------------
(* Direct calls on one LabTest object.                                     *)

Init ==
    /\ heap = [a \in Addr |-> Free]
    /\ tests = Repo_init.tests
    /\ index_patient = Repo_init.index_patient
    /\ index_type = Repo_init.index_type
    /\ history = Repo_init.history
    /\ test_counter = FirstCounter
    /\ cache = Cache_init.cache
    /\ hits = Cache_init.hits
    /\ capacity = Capacity
    /\ alerts = Alert_init.alerts
    /\ alert_counter = Alert_init.alert_counter
    /\ threads = Idle
    /\ last = Call("init", 0, 0, NoArgs, NoError, None)

\* the lowest free heap address
HasFree(h) == \E a \in Addr : h[a] = Free
Alloc(h) == CHOOSE a \in Addr : h[a] = Free /\ \A b \in 1..(a - 1) : h[b] # Free

\* t = BloodTest(...) / ImagingTest(...) / BiopsyTest(...)
Construct(cls, test_id, patient_id) ==
    /\ HasFree(heap)
    /\ heap' = [heap EXCEPT ![Alloc(heap)] = NewTest(cls, test_id, patient_id)]
    /\ last' = Call("construct", Alloc(heap), test_id, [cls |-> cls], NoError, None)
    /\ UNCHANGED <<tests, index_patient, index_type, history, test_counter, cache, hits, threads, capacity, alerts, alert_counter>>

\* t.collect_sample(when)
CallCollectSample(a, when, now) ==
    /\ heap[a] # Free
    /\ LET r == collect_sample(heap[a], when, now)
       IN  /\ AuditRoom(a, r)
           /\ heap' = [heap EXCEPT ![a] = r.self]
           /\ last' = Call("collect_sample", a, heap[a].test_id, [when |-> when], r.exc, r.ret)
    /\ UNCHANGED <<tests, index_patient, index_type, history, test_counter, cache, hits, threads, capacity, alerts, alert_counter>>

\* t.start_processing()
CallStartProcessing(a) ==
    /\ heap[a] # Free
    /\ LET r == start_processing(heap[a])
       IN  /\ AuditRoom(a, r)
           /\ heap' = [heap EXCEPT ![a] = r.self]
           /\ last' = Call("start_processing", a, heap[a].test_id, NoArgs, r.exc, r.ret)
    /\ UNCHANGED <<tests, index_patient, index_type, history, test_counter, cache, hits, threads, capacity, alerts, alert_counter>>

\* t.cancel(reason)
CallCancel(a, reason) ==
    /\ heap[a] # Free
    /\ LET r == cancel(heap[a], reason)
       IN  /\ AuditRoom(a, r)
           /\ heap' = [heap EXCEPT ![a] = r.self]
           /\ last' = Call("cancel", a, heap[a].test_id, [reason |-> reason], r.exc, r.ret)
    /\ UNCHANGED <<tests, index_patient, index_type, history, test_counter, cache, hits, threads, capacity, alerts, alert_counter>>

\* t.set_result(result, note)
CallSetResult(a, result, note, now) ==
    /\ heap[a] # Free
    /\ LET r == set_result(heap[a], result, note, now)
       IN  /\ AuditRoom(a, r)
           /\ heap' = [heap EXCEPT ![a] = r.self]
           /\ last' = Call("set_result", a, heap[a].test_id, [result |-> result, note |-> note], r.exc, r.ret)
    /\ UNCHANGED <<tests, index_patient, index_type, history, test_counter, cache, hits, threads, capacity, alerts, alert_counter>>

Next ==
    \/ \E cls \in Classes : heap[1] = Free /\ Construct(cls, 1, 1)
    \/ \E a \in Addr, when \in Whens : \E now \in Nows(when = None) : CallCollectSample(a, when, now)
    \/ \E a \in Addr : CallStartProcessing(a)
    \/ \E a \in Addr, reason \in Reasons : CallCancel(a, reason)
    \/ \E a \in Addr, result \in Results, note \in Notes :
          \E now \in Nows(heap[a] # Free /\ set_result(heap[a], result, note, datetime(1)).exc = NoError) :
             CallSetResult(a, result, note, now)

Spec == Init /\ [][Next]_vars

-----------------------------------------------------------------------------
(* The service, the repository and the cache layer over the repository.    *)

Patients == {1}
Ids == FirstCounter..(FirstCounter + MaxTests)
SvcResults == {NumericResult(250, s_mg_dL_padded), str(s_report_critical), int(5)}
SvcNotes == {s_note}
SvcReasons == {<<>>}
SvcTimes == {datetime(1)}

SetRepo(R) ==
    /\ tests' = R.tests
    /\ index_patient' = R.index_patient
    /\ index_type' = R.index_type
    /\ history' = R.history

SetCache(K) ==
    /\ cache' = K.cache
    /\ hits' = K.hits

\* a call that appends to the repository history is issued while the history
\* is shorter than cap
HistRoom(R, cap) == IF R.history = history THEN TRUE ELSE Len(history) < cap

\* a service call that appends to an audit trail is issued while it is short
SvcAuditRoom(h) == \A a \in Addr : IF h[a] = heap[a] THEN TRUE ELSE Len(heap[a].audit) < MaxAudit

\* service.create_blood_test(...) / create_imaging_test(...) / create_biopsy_test(...)
\* (issued while the service has issued fewer than most ids)
Create(cls, patient_id, cap, most) ==
    /\ HasFree(heap)
    /\ test_counter < FirstCounter + most
    /\ LET test_id == _next_id(test_counter)
           a == Alloc(heap)
           h1 == [heap EXCEPT ![a] = NewTest(cls, test_id, patient_id)]
           r == Repo_add(Repository, h1, Ref(a))
       IN  /\ HistRoom(r.R, cap)
           /\ test_counter' = test_id
           /\ heap' = h1
           /\ SetRepo(r.R)
           /\ last' = Call("create_test", a, test_id, [cls |-> cls], NoError, Ref(a))
    /\ UNCHANGED <<cache, hits, threads, capacity, alerts, alert_counter>>

create_test(cls, patient_id, cap) == Create(cls, patient_id, cap, MaxTests)

SvcStep(op, test_id, args, r, cap) ==
    /\ HistRoom(r.R, cap)
    /\ SvcAuditRoom(r.h)
    /\ heap' = r.h
    /\ SetRepo(r.R)
    /\ last' = Call(op, IF test_id \in DOMAIN tests THEN tests[test_id].at ELSE 0, test_id, args, r.exc, r.ret)
    /\ UNCHANGED <<test_counter, cache, hits, threads, capacity, alerts, alert_counter>>

\* service.collect_sample(test_id)
SvcCollectSample(test_id, now, cap) ==
    SvcStep("service.collect_sample", test_id, [when |-> None], Svc_collect_sample(Repository, heap, test_id, now), cap)

\* service.start_processing(test_id)
SvcStartProcessing(test_id, cap) ==
    SvcStep("service.start_processing", test_id, NoArgs, Svc_start_processing(Repository, heap, test_id), cap)

\* service.enter_result(test_id, result, note)
SvcEnterResult(test_id, result, note, now, cap) ==
    SvcStep("service.enter_result", test_id, [result |-> result, note |-> note],
            Svc_enter_result(Repository, heap, test_id, result, note, now), cap)

\* service.cancel_test(test_id, reason)
SvcCancelTest(test_id, reason, cap) ==
    SvcStep("service.cancel_test", test_id, [reason |-> reason], Svc_cancel_test(Repository, heap, test_id, reason), cap)

RepoStep(op, a, test_id, r, cap) ==
    /\ HistRoom(r.R, cap)
    /\ SetRepo(r.R)
    /\ last' = Call(op, a, test_id, NoArgs, NoError, r.ret)
    /\ UNCHANGED <<heap, test_counter, cache, hits, threads, capacity, alerts, alert_counter>>

\* repo.add(t)
RepoAdd(a, cap) == heap[a] # Free /\ RepoStep("repo.add", a, heap[a].test_id, Repo_add(Repository, heap, Ref(a)), cap)

\* repo.update(t)
RepoUpdate(a, cap) == heap[a] # Free /\ RepoStep("repo.update", a, heap[a].test_id, Repo_update(Repository, heap, Ref(a)), cap)

\* repo.delete(test_id)
RepoDelete(test_id, cap) == RepoStep("repo.delete", 0, test_id, Repo_delete(Repository, heap, test_id), cap)

CacheStep(op, a, test_id, r, cap) ==
    /\ HistRoom(r.R, cap)
    /\ SetRepo(r.R)
    /\ SetCache(r.K)
    /\ last' = Call(op, a, test_id, NoArgs, NoError, r.ret)
    /\ UNCHANGED <<heap, test_counter, threads, capacity, alerts, alert_counter>>

\* cached.get(test_id)
CacheGet(test_id, cap) ==
    /\ HitGet(hits, test_id) < MaxHits
    /\ CacheStep("cache.get", 0, test_id, Cache_get(CacheLayer, Repository, test_id), cap)

\* cached.add(t)
CacheAdd(a, cap) ==
    /\ heap[a] # Free
    /\ CacheStep("cache.add", a, heap[a].test_id, Cache_add(CacheLayer, Repository, heap, Ref(a)), cap)

\* cached.delete(test_id)
CacheDelete(test_id, cap) ==
    CacheStep("cache.delete", 0, test_id, Cache_delete(CacheLayer, Repository, heap, test_id), cap)

NextService ==
    \/ \E cls \in Classes, patient_id \in Patients : create_test(cls, patient_id, MaxHist)
    \/ \E test_id \in Ids, now \in SvcTimes : SvcCollectSample(test_id, now, MaxHist)
    \/ \E test_id \in Ids : SvcStartProcessing(test_id, MaxHist)
    \/ \E test_id \in Ids, result \in SvcResults, note \in SvcNotes, now \in SvcTimes :
          SvcEnterResult(test_id, result, note, now, MaxHist)
    \/ \E test_id \in Ids, reason \in SvcReasons : SvcCancelTest(test_id, reason, MaxHist)
    \/ \E a \in Addr, result \in SvcResults, note \in SvcNotes, now \in SvcTimes :
          CallSetResult(a, result, note, now)
    \/ \E a \in Addr : RepoAdd(a, MaxHist)
    \/ \E a \in Addr : RepoUpdate(a, MaxHist)
    \/ \E test_id \in Ids : RepoDelete(test_id, MaxHist)

SpecService == Init /\ [][NextService]_vars

-----------------------------------------------------------------------------
(* A test that the service has taken to COMPLETED, and every call that can *)
(* follow: LabTest methods, service calls, repository calls and calls of   *)
(* the cache layer over the repository.  The initial states are computed   *)
(* with the service's own operations: create, optionally collect_sample,   *)
(* start_processing, enter_result.                                         *)

CompletedId == _next_id(FirstCounter)

InitCompleted ==
    \E cls \in Classes, collected \in BOOLEAN, result \in SvcResults, note \in SvcNotes, now \in Times :
        LET h0 == [a \in Addr |-> IF a = 1 THEN NewTest(cls, CompletedId, 1) ELSE Free]
            R0 == Repo_add(Repo_init, h0, Ref(1)).R
            s1 == IF collected THEN Svc_collect_sample(R0, h0, CompletedId, now)
                  ELSE SvcOutcome(h0, R0, NoError, None)
            s2 == Svc_start_processing(s1.R, s1.h, CompletedId)
            s3 == Svc_enter_result(s2.R, s2.h, CompletedId, result, note, now)
        IN  /\ s3.exc = NoError
            /\ heap = s3.h
            /\ tests = s3.R.tests
            /\ index_patient = s3.R.index_patient
            /\ index_type = s3.R.index_type
            /\ history = s3.R.history
            /\ test_counter = CompletedId
            /\ cache = Cache_init.cache
            /\ hits = Cache_init.hits
            /\ capacity = Capacity
            /\ alerts = Alert_init.alerts
            /\ alert_counter = Alert_init.alert_counter
            /\ threads = Idle
            /\ last = Call("service.enter_result", 1, CompletedId, [result |-> result, note |-> note], NoError, s3.ret)

\* the calls that follow append to the history, which the scenario has filled
\* with up to MaxAudit records, while it is shorter than this
LaterCap == MaxAudit + MaxLater

NextCompleted ==
    \/ \E a \in Addr, when \in Whens : CallCollectSample(a, when, datetime(1))
    \/ \E a \in Addr : CallStartProcessing(a)
    \/ \E a \in Addr, reason \in SvcReasons : CallCancel(a, reason)
    \/ \E a \in Addr, result \in SvcResults, note \in SvcNotes : CallSetResult(a, result, note, datetime(1))
    \/ \E test_id \in Ids : SvcCollectSample(test_id, datetime(1), LaterCap)
    \/ \E test_id \in Ids : SvcStartProcessing(test_id, LaterCap)
    \/ \E test_id \in Ids, result \in SvcResults, note \in SvcNotes :
          SvcEnterResult(test_id, result, note, datetime(1), LaterCap)
    \/ \E test_id \in Ids, reason \in SvcReasons : SvcCancelTest(test_id, reason, LaterCap)
    \/ \E a \in Addr : RepoAdd(a, LaterCap)
    \/ \E a \in Addr : RepoUpdate(a, LaterCap)
    \/ \E test_id \in Ids : RepoDelete(test_id, LaterCap)
    \/ \E test_id \in Ids : CacheGet(test_id, LaterCap)
    \/ \E a \in Addr : CacheAdd(a, LaterCap)
    \/ \E test_id \in Ids : CacheDelete(test_id, LaterCap)

SpecCompleted == InitCompleted /\ [][NextCompleted]_vars

-----------------------------------------------------------------------------
(* Two threads on one IN_PROGRESS LabTest: one calls set_result(result,    *)
(* note), the other cancel(reason).  Neither method takes a lock, so the   *)
(* threads interleave statement by statement.                              *)

\* the address of the first object constructed
RaceAddr == Alloc([a \in Addr |-> Free])

InitRace ==
    \E cls \in Classes, result \in Results, reason \in Reasons :
        /\ heap = [a \in Addr |-> IF a = RaceAddr THEN start_processing(NewTest(cls, 1, 1)).self ELSE Free]
        /\ tests = Repo_init.tests
        /\ index_patient = Repo_init.index_patient
        /\ index_type = Repo_init.index_type
        /\ history = Repo_init.history
        /\ test_counter = FirstCounter
        /\ cache = Cache_init.cache
        /\ hits = Cache_init.hits
        /\ capacity = Capacity
        /\ alerts = Alert_init.alerts
        /\ alert_counter = Alert_init.alert_counter
        /\ threads = [s |-> Thread(167, FALSE, NoError, None, [result |-> result, note |-> s_note]),
                      c |-> Thread(155, FALSE, NoError, None, [reason |-> reason])]
        /\ last = Call("start_processing", RaceAddr, 1, NoArgs, NoError, None)

\* the set_result thread executes its next statement
StepSetResult(now) ==
    /\ ~threads.s.done
    /\ LET r == set_result_stmt(heap[RaceAddr], threads.s.pc, threads.s.args.result, threads.s.args.note, now)
       IN  /\ heap' = [heap EXCEPT ![RaceAddr] = r.self]
           /\ threads' = [threads EXCEPT !.s = Thread(r.pc, r.done, r.exc, r.ret, @.args)]
    /\ UNCHANGED <<tests, index_patient, index_type, history, test_counter, cache, hits, last, capacity, alerts, alert_counter>>

\* the cancel thread executes its next statement
StepCancel ==
    /\ ~threads.c.done
    /\ LET r == cancel_stmt(heap[RaceAddr], threads.c.pc, threads.c.args.reason)
       IN  /\ heap' = [heap EXCEPT ![RaceAddr] = r.self]
           /\ threads' = [threads EXCEPT !.c = Thread(r.pc, r.done, r.exc, r.ret, @.args)]
    /\ UNCHANGED <<tests, index_patient, index_type, history, test_counter, cache, hits, last, capacity, alerts, alert_counter>>

NextRace ==
    \/ \E now \in Nows(threads.s.pc = 177) : StepSetResult(now)
    \/ StepCancel

SpecRace == InitRace /\ [][NextRace]_vars

-----------------------------------------------------------------------------
(* The repository on its own: LabTest objects are constructed with ids,    *)
(* patients and types that coincide and differ, and passed to add, update  *)
(* and delete, while the first object is taken to COMPLETED; every read    *)
(* operation is called in every state.                                     *)

\* the constructor arguments of the object at address a: the second object
\* is an imaging test for patient 2 under the id of the first, the others are
\* blood tests for patient 1, two per id
RepoTestAt(a) ==
    IF a = 2 THEN [cls |-> "ImagingTest", test_id |-> 1, patient_id |-> 2]
    ELSE [cls |-> "BloodTest", test_id |-> (a + 1) \div 2, patient_id |-> 1]
\* the arguments of the reads: present and absent ids, patients and types
RepoIds == 1..((MaxObj + 1) \div 2 + 1)
RepoPatients == {1, 2, 3}
RepoTypes == {NewTest("BloodTest", 1, 1).test_type,
              <<" ">> \o NewTest("ImagingTest", 1, 1).test_type \o <<" ">>,
              s_BIOPSY}
Limits == 0..MaxLimit

\* the next object is constructed
ConstructRepoTest ==
    /\ HasFree(heap)
    /\ LET rt == RepoTestAt(Alloc(heap))
       IN  Construct(rt.cls, rt.test_id, rt.patient_id)

RepoRead(op, test_id, args, r) ==
    /\ SetRepo(r.R)
    /\ last' = Call(op, 0, test_id, args, NoError, r.ret)
    /\ UNCHANGED <<heap, test_counter, cache, hits, threads, capacity, alerts, alert_counter>>

\* repo.get(test_id)
RepoGet(test_id) ==
    RepoRead("repo.get", test_id, NoArgs, RepoOutcome(Repository, Repo_get(Repository, test_id)))

\* repo.list_all()
RepoListAll == RepoRead("repo.list_all", 0, NoArgs, Repo_list_all(Repository))

\* repo.find_by_patient(patient_id)
RepoFindByPatient(patient_id) ==
    RepoRead("repo.find_by_patient", 0, [patient_id |-> patient_id], Repo_find_by_patient(Repository, patient_id))

\* repo.filter_by_type(test_type)
RepoFilterByType(test_type) ==
    RepoRead("repo.filter_by_type", 0, [test_type |-> test_type], Repo_filter_by_type(Repository, test_type))

\* repo.filter_by_status(status)
RepoFilterByStatus(status) ==
    RepoRead("repo.filter_by_status", 0, [status |-> status], Repo_filter_by_status(Repository, heap, status))

\* repo.critical_results()
RepoCriticalResults == RepoRead("repo.critical_results", 0, NoArgs, Repo_critical_results(Repository, heap))

\* repo.history(limit)
RepoHistory(limit) == RepoRead("repo.history", 0, [limit |-> limit], Repo_history(Repository, limit))

NextRepo ==
    \/ ConstructRepoTest
    \/ CallStartProcessing(1)
    \/ \E result \in SvcResults : CallSetResult(1, result, s_note, datetime(1))
    \/ \E a \in Addr : RepoAdd(a, MaxHist)
    \/ \E a \in Addr : RepoUpdate(a, MaxHist)
    \/ \E test_id \in RepoIds : RepoDelete(test_id, MaxHist)
    \/ \E test_id \in RepoIds : RepoGet(test_id)
    \/ RepoListAll
    \/ \E patient_id \in RepoPatients : RepoFindByPatient(patient_id)
    \/ \E test_type \in RepoTypes : RepoFilterByType(test_type)
    \/ \E status \in TestStatus : RepoFilterByStatus(status)
    \/ RepoCriticalResults
    \/ \E limit \in Limits : RepoHistory(limit)

SpecRepo == Init /\ [][NextRepo]_vars

-----------------------------------------------------------------------------
(* The static method LabTest.is_valid_status_transition, called with every *)
(* pair of statuses while a LabTest object of each class stands in each    *)
(* status.                                                                 *)

\* the object of class cls taken to the status by its own methods
TestIn(cls, status) ==
    LET t0 == NewTest(cls, 1, 1)
        t1 == start_processing(t0).self
        valid == CHOOSE result \in Results : validate_result(t0, result) = NoError
    IN  CASE status = ORDERED -> t0
          [] status = COLLECTED -> collect_sample(t0, None, datetime(1)).self
          [] status = IN_PROGRESS -> t1
          [] status = COMPLETED -> set_result(t1, valid, s_note, datetime(1)).self
          [] status = CANCELLED -> cancel(t0, <<>>).self

InitStatic ==
    \E cls \in Classes, status \in TestStatus :
        /\ heap = [a \in Addr |-> IF a = 1 THEN TestIn(cls, status) ELSE Free]
        /\ tests = Repo_init.tests
        /\ index_patient = Repo_init.index_patient
        /\ index_type = Repo_init.index_type
        /\ history = Repo_init.history
        /\ test_counter = FirstCounter
        /\ cache = Cache_init.cache
        /\ hits = Cache_init.hits
        /\ capacity = Capacity
        /\ alerts = Alert_init.alerts
        /\ alert_counter = Alert_init.alert_counter
        /\ threads = Idle
        \* no call yet; the calls of this specification return Booleans
        /\ last = Call("init", 0, 0, NoArgs, NoError, FALSE)

\* LabTest.is_valid_status_transition(current, new)
CallIsValidStatusTransition(current, new) ==
    /\ last' = Call("is_valid_status_transition", 0, 0, [current |-> current, new |-> new],
                    NoError, is_valid_status_transition(current, new))
    /\ UNCHANGED <<heap, tests, index_patient, index_type, history, test_counter, cache, hits, threads, capacity, alerts, alert_counter>>

NextStatic == \E current \in TestStatus, new \in TestStatus : CallIsValidStatusTransition(current, new)

SpecStatic == InitStatic /\ [][NextStatic]_vars

-----------------------------------------------------------------------------
(* A CachedLabTestRepository constructed with each capacity up to Capacity, *)
(* zero included, over a repository written through the cache layer; the   *)
(* tests have one id each.                                                  *)

CacheIds == 1..MaxObj

InitCache ==
    /\ heap = [a \in Addr |-> Free]
    /\ tests = Repo_init.tests
    /\ index_patient = Repo_init.index_patient
    /\ index_type = Repo_init.index_type
    /\ history = Repo_init.history
    /\ test_counter = FirstCounter
    /\ cache = Cache_init.cache
    /\ hits = Cache_init.hits
    /\ capacity \in 0..Capacity
    /\ alerts = Alert_init.alerts
    /\ alert_counter = Alert_init.alert_counter
    /\ threads = Idle
    /\ last = Call("init", 0, 0, NoArgs, NoError, None)

ConstructCacheTest ==
    /\ HasFree(heap)
    /\ Construct("BloodTest", Alloc(heap), Alloc(heap))

NextCache ==
    \/ ConstructCacheTest
    \/ \E test_id \in CacheIds : CacheGet(test_id, MaxHist)
    \/ \E a \in Addr : CacheAdd(a, MaxHist)
    \/ \E test_id \in CacheIds : CacheDelete(test_id, MaxHist)

SpecCache == InitCache /\ [][NextCache]_vars

-----------------------------------------------------------------------------
(* A CachedLabTestRepository and its wrapped repository, which is also      *)
(* called directly: the constructor keeps the caller's repository object   *)
(* (self._main_repo = main_repo), so both are reachable.                    *)

NextShared ==
    \/ ConstructRepoTest
    \/ \E test_id \in RepoIds : CacheGet(test_id, MaxHist)
    \/ \E a \in Addr : CacheAdd(a, MaxHist)
    \/ \E test_id \in RepoIds : CacheDelete(test_id, MaxHist)
    \/ \E a \in Addr : RepoAdd(a, MaxHist)
    \/ \E a \in Addr : RepoUpdate(a, MaxHist)
    \/ \E test_id \in RepoIds : RepoDelete(test_id, MaxHist)

SpecShared == Init /\ [][NextShared]_vars

-----------------------------------------------------------------------------
(* Two calls among add, update and delete on one repository, from two      *)
(* threads, statement by statement in every interleaving.  The repository  *)
(* is empty or holds the first test; the arguments are the tests of        *)
(* RepoTestAt, two of which share an id.                                    *)

RepoOps == {"add", "update", "delete"}
RepoCall(op, a) ==
    Thread(FirstLine(op), FALSE, NoError, None,
           [op |-> op, at |-> a, id |-> RepoTestAt(a).test_id, local |-> None])

InitRepoRace ==
    \E stored \in BOOLEAN, op1 \in RepoOps, op2 \in RepoOps, a1 \in Addr, a2 \in Addr :
        LET h == [a \in Addr |-> NewTest(RepoTestAt(a).cls, RepoTestAt(a).test_id, RepoTestAt(a).patient_id)]
            R == IF stored THEN Repo_add(Repo_init, h, Ref(RaceAddr)).R ELSE Repo_init
        IN  /\ heap = h
            /\ tests = R.tests
            /\ index_patient = R.index_patient
            /\ index_type = R.index_type
            /\ history = R.history
            /\ test_counter = FirstCounter
            /\ cache = Cache_init.cache
            /\ hits = Cache_init.hits
            /\ capacity = Capacity
            /\ alerts = Alert_init.alerts
            /\ alert_counter = Alert_init.alert_counter
            /\ threads = <<RepoCall(op1, a1), RepoCall(op2, a2)>>
            /\ last = Call("init", 0, 0, NoArgs, NoError, None)

\* thread i executes its next statement
StepRepo(i) ==
    /\ ~threads[i].done
    /\ LET r == Repo_stmt(Repository, heap, threads[i])
       IN  /\ SetRepo(r.R)
           /\ threads' = [threads EXCEPT ![i] = r.th]
    /\ UNCHANGED <<heap, test_counter, cache, hits, last, capacity, alerts, alert_counter>>

NextRepoRace == \E i \in DOMAIN threads : StepRepo(i)

SpecRepoRace == InitRepoRace /\ [][NextRepoRace]_vars

-----------------------------------------------------------------------------
(* A LabTestService over a repository that its caller holds too           *)
(* (LabTestService(repo=self.repo)): the caller builds tests of its own,    *)
(* with the first id the service issues, adds and deletes directly, and     *)
(* makes lifecycle calls that fail, between the factory calls.              *)

FactoryIds == FirstCounter..(FirstCounter + MaxIssued)

\* the caller constructs ImagingTest(test_id=10001, patient_id=2, ...)
ConstructForeign == Construct("ImagingTest", _next_id(FirstCounter), 2)

NextFactory ==
    \/ \E cls \in Classes, patient_id \in Patients : Create(cls, patient_id, MaxHist, MaxIssued)
    \/ ConstructForeign
    \/ \E a \in Addr : RepoAdd(a, MaxHist)
    \/ \E test_id \in FactoryIds : RepoDelete(test_id, MaxHist)
    \/ \E test_id \in FactoryIds : SvcStartProcessing(test_id, MaxHist)
    \/ \E test_id \in FactoryIds : SvcEnterResult(test_id, int(5), s_note, datetime(1), MaxHist)

SpecFactory == Init /\ [][NextFactory]_vars

-----------------------------------------------------------------------------
(* set_result on an IN_PROGRESS BloodTest, for each of several reference    *)
(* ranges and every value on the range's grid up to MaxValue.               *)

\* (70, 110) in integers and in halves, ranges of width 0, a wide range, and
\* 1e-10 .. 3e-10, below 1e-9, on a grid of 1e-11 (nano = 100 steps)
BloodRanges ==
    { GlucoseRange,
      ReferenceRangeOn(140, 220, s_mg_dL, 0),
      ReferenceRangeOn(1, 1, s_mg_dL, 0),
      ReferenceRangeOn(20, 20, s_mg_dL, 0),
      ReferenceRangeOn(3, 400, s_mg_dL, 0),
      ReferenceRangeOn(10, 30, s_mg_dL, 100) }

Values == 0..MaxValue

InitBlood ==
    \E reference \in BloodRanges :
        /\ heap = [a \in Addr |-> IF a = RaceAddr
                                  THEN start_processing(BloodTest(1, 1, s_biochem, reference)).self
                                  ELSE Free]
        /\ tests = Repo_init.tests
        /\ index_patient = Repo_init.index_patient
        /\ index_type = Repo_init.index_type
        /\ history = Repo_init.history
        /\ test_counter = FirstCounter
        /\ cache = Cache_init.cache
        /\ hits = Cache_init.hits
        /\ capacity = Capacity
        /\ alerts = Alert_init.alerts
        /\ alert_counter = Alert_init.alert_counter
        /\ threads = Idle
        /\ last = Call("start_processing", RaceAddr, 1, NoArgs, NoError, None)

\* one result is entered for the test
NextBlood ==
    \E value \in Values :
        \E result \in { NumericResult(value, s_mg_dL_padded),
                        dict(<< <<"value", value>>, <<"unit", s_mg_dL>> >>) } :
            /\ heap[RaceAddr].status = IN_PROGRESS
            /\ CallSetResult(RaceAddr, result, s_note, datetime(1))

SpecBlood == InitBlood /\ [][NextBlood]_vars

-----------------------------------------------------------------------------
(* Imaging and biopsy reports: one test in IN_PROGRESS, its result entered  *)
(* as free text or as a map, the text put together from a few words.        *)

w_kanama == <<"k", "a", "n", "a", "m", "a">>
w_Rupture == <<"R", "u", "p", "t", "u", "r", "e">>
w_mild == <<"m", "i", "l", "d">>
w_Suspicious == <<"S", "U", "S", "P", "I", "C", "I", "O", "U", "S">>
w_Malignant == <<"M", "a", "l", "i", "g", "n", "a", "n", "t">>
w_lung == <<"l", "u", "n", "g">>
Words == {w_kanama, w_Rupture, w_mild, w_Suspicious, w_Malignant, w_lung, s_mass, s_effect, s_diag_atypia}

\* the reports of one to MaxWords words
Reports == UNION { [1..n -> Words] : n \in 1..MaxWords }

\* the ways a report is entered: as text, as findings and impression, as a
\* diagnosis, as a diagnosis with a comment
ResultsOf(ws) ==
    { str(join(ws)),
      dict(<< <<"findings", ws[1]>>, <<"impression", join(Tail(ws))>> >>),
      dict(<< <<"diagnosis", join(ws)>> >>),
      dict(<< <<"diagnosis", ws[1]>>, <<"comment", join(Tail(ws))>> >>) }

InitText ==
    \E cls \in {"ImagingTest", "BiopsyTest"} :
        /\ heap = [a \in Addr |-> IF a = RaceAddr
                                  THEN start_processing(NewTest(cls, 1, 1)).self
                                  ELSE Free]
        /\ tests = Repo_init.tests
        /\ index_patient = Repo_init.index_patient
        /\ index_type = Repo_init.index_type
        /\ history = Repo_init.history
        /\ test_counter = FirstCounter
        /\ cache = Cache_init.cache
        /\ hits = Cache_init.hits
        /\ capacity = Capacity
        /\ alerts = Alert_init.alerts
        /\ alert_counter = Alert_init.alert_counter
        /\ threads = [i \in {} |-> Idle]
        /\ last = Call("start_processing", RaceAddr, 1, NoArgs, NoError, None)

NextText ==
    \E ws \in Reports :
        \E result \in ResultsOf(ws) :
            \* one report is entered; a rejected one is not entered again
            /\ heap[RaceAddr].status = IN_PROGRESS
            /\ last.exc = NoError
            /\ CallSetResult(RaceAddr, result, s_note, datetime(1))

SpecText == InitText /\ [][NextText]_vars

-----------------------------------------------------------------------------
(* Two objects of one class built from the same constructor arguments:    *)
(* the first is taken through every lifecycle call, the second is started  *)
(* and given a result; both are read with summary(), audit_trail() and the *)
(* JSON repository's _serialize.                                           *)

TwinAddr == {1, 2}
\* per class an accepted result or two, and one no class accepts
TwinResults ==
    { NumericResult(250, s_mg_dL_padded),
      dict(<< <<"value", 250>>, <<"unit", s_mg_dL>> >>),
      str(s_report_critical),
      dict(<< <<"findings", s_mass>>, <<"impression", s_effect>> >>),
      dict(<< <<"diagnosis", s_diag_atypia>> >>),
      int(5) }

InitTwin ==
    \E cls \in Classes :
        /\ heap = [a \in Addr |-> IF a \in TwinAddr THEN NewTest(cls, 1, 1) ELSE Free]
        /\ tests = Repo_init.tests
        /\ index_patient = Repo_init.index_patient
        /\ index_type = Repo_init.index_type
        /\ history = Repo_init.history
        /\ test_counter = FirstCounter
        /\ cache = Cache_init.cache
        /\ hits = Cache_init.hits
        /\ capacity = Capacity
        /\ alerts = Alert_init.alerts
        /\ alert_counter = Alert_init.alert_counter
        /\ threads = Idle
        /\ last = Call("construct", 2, 1, [cls |-> cls], NoError, None)

\* a read of the object at address a: summary(), audit_trail(), _serialize(t)
CallRead(op, a, r) ==
    /\ heap[a] # Free
    /\ heap' = [heap EXCEPT ![a] = r.self]
    /\ last' = Call(op, a, heap[a].test_id, NoArgs, r.exc, [kind |-> "returned", value |-> r.ret])
    /\ UNCHANGED <<tests, index_patient, index_type, history, test_counter, cache, hits, threads, capacity, alerts, alert_counter>>

CallSummary(a) == CallRead("summary", a, summary(heap[a]))
CallAuditTrail(a) == CallRead("audit_trail", a, audit_trail(heap[a]))
CallSerialize(a) == CallRead("_serialize", a, _serialize(heap[a]))

NextTwin ==
    \/ CallCollectSample(1, None, datetime(1))
    \/ \E a \in TwinAddr : CallStartProcessing(a)
    \/ CallCancel(1, s_reason)
    \/ \E a \in TwinAddr, result \in TwinResults : CallSetResult(a, result, s_note, datetime(1))
    \/ \E a \in TwinAddr : CallSummary(a)
    \/ \E a \in TwinAddr : CallAuditTrail(a)
    \/ \E a \in TwinAddr : CallSerialize(a)

SpecTwin == InitTwin /\ [][NextTwin]_vars

-----------------------------------------------------------------------------
(* The alert service beside two tests in IN_PROGRESS: results are entered, *)
(* maybe_create_alert is called on either test in any state, alerts are    *)
(* listed and acknowledged by present and absent ids.                      *)

AlertAddr == {1, 2}
AlertResults ==
    { NumericResult(250, s_mg_dL_padded),
      NumericResult(90, s_mg_dL),
      str(s_report_critical),
      dict(<< <<"diagnosis", s_diag_atypia>> >>) }
AlertIds == 1..(MaxAlerts + 1)

\* the first test is of any class, for patient 1; the second is an imaging
\* test for patient 3
InitAlert ==
    \E cls \in Classes :
        /\ heap = [a \in Addr |-> IF a = 1 THEN start_processing(NewTest(cls, 1, 1)).self
                                  ELSE IF a = 2 THEN start_processing(NewTest("ImagingTest", 2, 3)).self
                                  ELSE Free]
        /\ tests = Repo_init.tests
        /\ index_patient = Repo_init.index_patient
        /\ index_type = Repo_init.index_type
        /\ history = Repo_init.history
        /\ test_counter = FirstCounter
        /\ cache = Cache_init.cache
        /\ hits = Cache_init.hits
        /\ capacity = Capacity
        /\ alerts = Alert_init.alerts
        /\ alert_counter = Alert_init.alert_counter
        /\ threads = Idle
        /\ last = Call("start_processing", 2, 2, NoArgs, NoError, None)

AlertStep(op, a, args, r) ==
    /\ alerts' = r.A.alerts
    /\ alert_counter' = r.A.alert_counter
    /\ last' = Call(op, a, 0, args, NoError, r.ret)
    /\ UNCHANGED <<heap, tests, index_patient, index_type, history, test_counter, cache, hits, threads, capacity>>

\* alerts.maybe_create_alert(t)
MaybeCreateAlert(a) ==
    /\ heap[a] # Free
    /\ LET r == maybe_create_alert(AlertService, heap[a])
       IN  /\ (IF r.A = AlertService THEN TRUE ELSE Len(alerts) < MaxAlerts)
           /\ AlertStep("alerts.maybe_create_alert", a, NoArgs, r)

\* alerts.list_unacknowledged()
ListUnacknowledged == AlertStep("alerts.list_unacknowledged", 0, NoArgs, list_unacknowledged(AlertService))

\* alerts.acknowledge(alert_id)
Acknowledge(alert_id) ==
    AlertStep("alerts.acknowledge", 0, [alert_id |-> alert_id], acknowledge(AlertService, alert_id))

NextAlert ==
    \/ \E a \in AlertAddr, result \in AlertResults : CallSetResult(a, result, s_note, datetime(1))
    \/ \E a \in AlertAddr : MaybeCreateAlert(a)
    \/ ListUnacknowledged
    \/ \E alert_id \in AlertIds : Acknowledge(alert_id)

SpecAlert == InitAlert /\ [][NextAlert]_vars

-----------------------------------------------------------------------------
(* The properties.  In an action property, last' is the call the step made, *)
(* heap the objects before the call and heap' the objects after it.         *)

LifecycleOps == {"collect_sample", "start_processing", "cancel", "set_result"}
Terminal == {COMPLETED, CANCELLED}
SevenPairs == { <<ORDERED, COLLECTED>>, <<ORDERED, IN_PROGRESS>>, <<ORDERED, CANCELLED>>,
                <<COLLECTED, IN_PROGRESS>>, <<COLLECTED, CANCELLED>>,
                <<IN_PROGRESS, COMPLETED>>, <<IN_PROGRESS, CANCELLED>> }

\* the step is a call of op on the object at last'.at
Called(op) == last'.op = op /\ last'.at \in Addr
Before == heap[last'.at]
After == heap'[last'.at]
Succeeded == last'.exc = NoError
\* the call raised and left every field of the object as it was
FailedUnchanged == last'.exc # NoError /\ After = Before

\* how many audit entries of the object carry the action
CountAudit(self, action) == Cardinality({i \in 1..Len(self.audit) : self.audit[i].action = action})

\* C1: every lifecycle call that succeeds takes the status along one of the
\* seven pairs is_valid_status_transition accepts, and none succeeds from
\* COMPLETED or CANCELLED.
C1_SuccessfulCallsFollowTheTable ==
    [][ (last'.op \in LifecycleOps /\ last'.at \in Addr /\ Succeeded) =>
            /\ <<Before.status, After.status>> \in SevenPairs
            /\ is_valid_status_transition(Before.status, After.status)
            /\ Before.status \notin Terminal ]_vars

\* C2: in every state reached by lifecycle calls on an object constructed
\* ORDERED, the result is set exactly when the status is COMPLETED, and the
\* result status is UNKNOWN exactly when the result is None.
C2_ResultIffCompleted ==
    \A a \in Addr :
        IF heap[a] = Free THEN TRUE
        ELSE /\ (heap[a].result # None) <=> (heap[a].status = COMPLETED)
             /\ (heap[a].result_status = UNKNOWN) <=> (heap[a].result = None)

\* C2 witness: set_result has completed an object and its result is stored
C2_Witness ==
    /\ last.op = "set_result" /\ last.exc = NoError
    /\ heap[last.at].status = COMPLETED
    /\ heap[last.at].result # None
    /\ heap[last.at].result_status # UNKNOWN

\* C3: once the two racing calls have both ended, with a result the class
\* accepts, the object is COMPLETED with a result and a result status, or
\* CANCELLED with no result, no result status and no completion time.
C3_RaceEndsInOneTerminalState ==
    (threads.s.done /\ threads.c.done) =>
        LET self == heap[RaceAddr]
        IN  validate_result(self, threads.s.args.result) = NoError =>
                \/ self.status = COMPLETED /\ self.result # None /\ self.result_status # UNKNOWN
                \/ /\ self.status = CANCELLED /\ self.result = None
                   /\ self.result_status = UNKNOWN /\ self.completed_at = None

\* C4: set_result on an IN_PROGRESS object with a result validate_result
\* rejects raises and writes nothing: status, result, note, result status,
\* completion time and audit trail are as before.
C4_RejectedResultWritesNothing ==
    [][ (Called("set_result") /\ Before.status = IN_PROGRESS
            /\ validate_result(Before, last'.args.result) # NoError) =>
            /\ last'.exc # NoError
            /\ After.status = IN_PROGRESS
            /\ After.result = None
            /\ After.result_note = Before.result_note
            /\ After.result_status = UNKNOWN
            /\ After.completed_at = Before.completed_at
            /\ After.audit = Before.audit ]_vars

\* C4 witness: a set_result call on an IN_PROGRESS object has been rejected
\* by validate_result
C4_Witness ==
    /\ last.op = "set_result" /\ last.exc # NoError
    /\ heap[last.at].status = IN_PROGRESS
    /\ validate_result(heap[last.at], last.args.result) # NoError

\* C5: on a COMPLETED or CANCELLED object every lifecycle call raises and
\* changes no field; set_result on an ORDERED object raises and changes no
\* field.
C5_TerminalCallsFailUnchanged ==
    [][ /\ (last'.op \in LifecycleOps /\ last'.at \in Addr /\ Before.status \in Terminal) => FailedUnchanged
        /\ (Called("set_result") /\ Before.status = ORDERED) => FailedUnchanged ]_vars

\* C6: status, result, note, result status and completion time of a
\* COMPLETED object are the same after every step.
C6_CompletedIsFrozen ==
    [][ \A a \in Addr :
            IF heap[a] = Free THEN TRUE
            ELSE heap[a].status = COMPLETED =>
                    /\ heap'[a] # Free
                    /\ heap'[a].status = COMPLETED
                    /\ heap'[a].result = heap[a].result
                    /\ heap'[a].result_note = heap[a].result_note
                    /\ heap'[a].result_status = heap[a].result_status
                    /\ heap'[a].completed_at = heap[a].completed_at ]_vars

\* C6 witness: a COMPLETED test has been deleted through the cache layer and
\* the repository has recorded the deletion
C6_Witness ==
    /\ last.op = "cache.delete" /\ last.ret = TRUE
    /\ \E a \in Addr : IF heap[a] = Free THEN FALSE ELSE heap[a].status = COMPLETED /\ heap[a].result # None
    /\ \E i \in 1..Len(history) : history[i].action = "DELETE"

\* C7: collect_sample succeeds from ORDERED, setting collected_at and the
\* status COLLECTED; from every other status it raises and leaves the object
\* unchanged.
C7_CollectOnlyFromOrdered ==
    [][ Called("collect_sample") =>
            IF Before.status = ORDERED
            THEN Succeeded /\ After.status = COLLECTED /\ After.collected_at # None
            ELSE FailedUnchanged ]_vars

\* C8: start_processing succeeds exactly from ORDERED and COLLECTED, and the
\* status is then IN_PROGRESS; from the other statuses it raises and leaves
\* the object unchanged.
C8_StartFromOrderedOrCollected ==
    [][ Called("start_processing") =>
            IF Before.status \in {ORDERED, COLLECTED}
            THEN Succeeded /\ After.status = IN_PROGRESS
            ELSE FailedUnchanged ]_vars

\* C8 witness: start_processing has succeeded on a COLLECTED object
C8_Witness ==
    /\ last.op = "start_processing" /\ last.exc = NoError
    /\ heap[last.at].status = IN_PROGRESS
    /\ heap[last.at].collected_at # None

\* C9: cancel succeeds from every status but COMPLETED and leaves the status
\* CANCELLED; on a COMPLETED object it raises and leaves the object
\* unchanged; so one cancel takes every non-terminal object to a terminal
\* status.
C9_CancelUnlessCompleted ==
    /\ [][ Called("cancel") =>
              IF Before.status # COMPLETED
              THEN Succeeded /\ After.status = CANCELLED
              ELSE FailedUnchanged ]_vars
    /\ [](\A a \in Addr, reason \in Reasons :
              IF heap[a] = Free THEN TRUE
              ELSE heap[a].status \notin Terminal =>
                      /\ cancel(heap[a], reason).exc = NoError
                      /\ cancel(heap[a], reason).self.status \in Terminal)

\* C9 witness: cancel has succeeded on an object that was already CANCELLED
C9_Witness ==
    /\ last.op = "cancel" /\ last.exc = NoError
    /\ heap[last.at].status = CANCELLED
    /\ CountAudit(heap[last.at], "CANCEL") = 2

\* C10: set_result and the service's enter_result succeed only on an
\* IN_PROGRESS object with a result the class accepts; they then store the
\* result, the stripped note and the completion time, set the status
\* COMPLETED and return the stored result status, one of NORMAL, BORDERLINE,
\* CRITICAL.  On another status enter_result raises, the object is unchanged
\* and the repository history gains no record.
C10_ResultEntry ==
    [][ (last'.op \in {"set_result", "service.enter_result"} /\ last'.at \in Addr) =>
            /\ Succeeded =>
                  /\ Before.status = IN_PROGRESS
                  /\ validate_result(Before, last'.args.result) = NoError
                  /\ After.result = last'.args.result
                  /\ After.result_note = strip(last'.args.note)
                  /\ After.completed_at \in Times
                  /\ After.status = COMPLETED
                  /\ last'.ret = After.result_status
                  /\ last'.ret \in {NORMAL, BORDERLINE, CRITICAL}
            /\ (last'.op = "service.enter_result" /\ Before.status # IN_PROGRESS) =>
                  /\ FailedUnchanged
                  /\ heap' = heap
                  /\ history' = history ]_vars

\* C10 witness: enter_result has completed a test and returned its result
\* status, and the repository has recorded the update
C10_Witness ==
    /\ last.op = "service.enter_result" /\ last.exc = NoError
    /\ heap[last.at].status = COMPLETED
    /\ last.ret = heap[last.at].result_status
    /\ history[Len(history)].action = "UPDATE"

\* the status a successful call of the lifecycle operation leaves
Target(op) ==
    CASE op = "collect_sample" -> COLLECTED
      [] op = "start_processing" -> IN_PROGRESS
      [] op = "cancel" -> CANCELLED
      [] op = "set_result" -> COMPLETED

\* C11: a lifecycle call along one of the seven legal pairs (set_result with
\* a result the class accepts) succeeds; a successful lifecycle call
\* lengthens the audit trail by exactly one entry and a failed one leaves its
\* length; a new object has the one CREATE entry.
C11_AuditGrowsByOnePerSuccess ==
    [][ /\ (last'.op \in LifecycleOps /\ last'.at \in Addr) =>
              /\ Succeeded => Len(After.audit) = Len(Before.audit) + 1
              /\ ~Succeeded => Len(After.audit) = Len(Before.audit)
              /\ ( /\ <<Before.status, Target(last'.op)>> \in SevenPairs
                   /\ last'.op = "set_result" => validate_result(Before, last'.args.result) = NoError ) =>
                    Succeeded /\ After.status = Target(last'.op)
        /\ (last'.op = "construct" /\ last'.at \in Addr) =>
              Len(After.audit) = 1 /\ After.audit[1].action = "CREATE" ]_vars

\* C11 witness: three lifecycle calls have succeeded on an object and its
\* audit trail holds four entries
C11_Witness ==
    /\ last.op = "set_result" /\ last.exc = NoError
    /\ Len(heap[last.at].audit) = 4
    /\ CountAudit(heap[last.at], "COLLECT") = 1

\* C12: is_valid_status_transition returns TRUE for exactly the seven pairs
\* of the table, FALSE for the other eighteen, among them every pair from
\* COMPLETED or CANCELLED and every self-pair, and leaves every object as it
\* was.
C12_TransitionTable ==
    [][ last'.op = "is_valid_status_transition" =>
            /\ last'.ret = (<<last'.args.current, last'.args.new>> \in SevenPairs)
            /\ last'.args.current \in Terminal => last'.ret = FALSE
            /\ last'.args.current = last'.args.new => last'.ret = FALSE
            /\ Cardinality({pr \in TestStatus \X TestStatus : is_valid_status_transition(pr[1], pr[2])}) = 7
            /\ heap' = heap ]_vars

\* C12 witness: the function has refused a self-pair while an object stands
\* in that status
C12_Witness ==
    /\ last.op = "is_valid_status_transition" /\ last.ret = FALSE
    /\ last.args.current = COLLECTED /\ last.args.new = COLLECTED
    /\ heap[1].status = COLLECTED

\* the repository after the step
RepositoryAfter == [tests |-> tests', index_patient |-> index_patient',
                    index_type |-> index_type', history |-> history']
\* the step left the primary map, both indexes and the history as they were
RepoUnchanged == RepositoryAfter = Repository
WriteOps == {"repo.add", "repo.update", "repo.delete"}
ReadOps == {"repo.get", "repo.list_all", "repo.find_by_patient", "repo.filter_by_type",
            "repo.filter_by_status", "repo.critical_results", "repo.history"}
\* every reference that list_all or one of the finders returns on R and h
AllFound(R, h) ==
    Repo_list_all(R).ret
        \cup UNION {Repo_find_by_patient(R, p).ret : p \in RepoPatients}
        \cup UNION {Repo_filter_by_type(R, ty).ret : ty \in RepoTypes}
        \cup UNION {Repo_filter_by_status(R, h, st).ret : st \in TestStatus}
        \cup Repo_critical_results(R, h).ret

\* C13: every id in a patient-index or type-index set is a key of the primary
\* map, and the id of every stored object is in the index set of its own
\* patient and of its own type and in no other index set.
C13_IndexesMatchPrimaryMap ==
    /\ \A p \in DOMAIN index_patient : index_patient[p] \subseteq DOMAIN tests
    /\ \A ty \in DOMAIN index_type : index_type[ty] \subseteq DOMAIN tests
    /\ \A id \in DOMAIN tests :
          LET e == heap[tests[id].at]
          IN  /\ e.test_id = id
              /\ e.patient_id \in DOMAIN index_patient
              /\ e.test_type \in DOMAIN index_type
              /\ \A p \in DOMAIN index_patient : (e.test_id \in index_patient[p]) <=> (p = e.patient_id)
              /\ \A ty \in DOMAIN index_type : (e.test_id \in index_type[ty]) <=> (ty = e.test_type)

\* C13 witness: two objects are stored, one of them by an update that moved
\* its id to another patient's index set
C13_Witness ==
    /\ last.op = "repo.update" /\ last.ret = TRUE
    /\ Cardinality(DOMAIN tests) = 2
    /\ Cardinality({p \in DOMAIN index_patient : index_patient[p] # {}}) = 2

\* C14: add(e) returns FALSE when e's id is stored, and the primary map, the
\* indexes and the history are then unchanged; otherwise it returns TRUE and
\* e is stored under its id and indexed under its patient and its type.
C14_AddRefusesDuplicateId ==
    [][ (last'.op = "repo.add" /\ last'.at \in Addr) =>
            LET e == heap[last'.at]
            IN  IF e.test_id \in DOMAIN tests
                THEN last'.ret = FALSE /\ RepoUnchanged
                ELSE /\ last'.ret = TRUE
                     /\ DOMAIN tests' = DOMAIN tests \cup {e.test_id}
                     /\ tests'[e.test_id] = Ref(last'.at)
                     /\ \A k \in DOMAIN tests : tests'[k] = tests[k]
                     /\ e.test_id \in index_patient'[e.patient_id]
                     /\ e.test_id \in index_type'[e.test_type] ]_vars

\* C14 witness: add has refused an object whose id is stored for another
\* object
C14_Witness ==
    /\ last.op = "repo.add" /\ last.ret = FALSE
    /\ last.id \in DOMAIN tests
    /\ tests[last.id] # Ref(last.at)

\* C15: a successful delete(id) removes the id from the primary map and no
\* read returns the deleted object afterwards; while an id is absent, get
\* returns None and list_all, find_by_patient, filter_by_type,
\* filter_by_status and critical_results return no object with that id;
\* delete of an absent id returns FALSE and changes nothing.
C15_DeletedIsGone ==
    /\ [](\A id \in RepoIds :
            id \notin DOMAIN tests =>
                /\ Repo_get(Repository, id) = None
                /\ \A ref \in AllFound(Repository, heap) : heap[ref.at].test_id # id)
    /\ [][ last'.op = "repo.delete" =>
              IF last'.id \in DOMAIN tests
              THEN /\ last'.ret = TRUE
                   /\ last'.id \notin DOMAIN tests'
                   /\ Repo_get(RepositoryAfter, last'.id) = None
                   /\ tests[last'.id] \notin AllFound(RepositoryAfter, heap')
              ELSE last'.ret = FALSE /\ RepoUnchanged ]_vars

\* C15 witness: one of two stored objects has been deleted
C15_Witness ==
    /\ last.op = "repo.delete" /\ last.ret = TRUE
    /\ last.id \notin DOMAIN tests
    /\ Cardinality(DOMAIN tests) = 1

\* C16: update(e) returns FALSE and changes nothing when e's id is absent;
\* otherwise it stores e under the id, takes the id out of the index sets of
\* the object stored before, puts it into those of e's patient and type and
\* appends one history record; find_by_patient then returns e for its
\* patient and, when the patient changed, nothing under the id for the old
\* one.
C16_UpdateReplacesAndReindexes ==
    [][ (last'.op = "repo.update" /\ last'.at \in Addr) =>
            LET e == heap[last'.at]
                id == e.test_id
            IN  IF id \notin DOMAIN tests
                THEN last'.ret = FALSE /\ RepoUnchanged
                ELSE LET old == heap[tests[id].at]
                     IN  /\ last'.ret = TRUE
                         /\ DOMAIN tests' = DOMAIN tests
                         /\ tests'[id] = Ref(last'.at)
                         /\ \A k \in DOMAIN tests \ {id} : tests'[k] = tests[k]
                         /\ old.patient_id # e.patient_id => id \notin index_patient'[old.patient_id]
                         /\ old.test_type # e.test_type => id \notin index_type'[old.test_type]
                         /\ id \in index_patient'[e.patient_id]
                         /\ id \in index_type'[e.test_type]
                         /\ history' = Append(history, [action |-> "UPDATE", test_id |-> id])
                         /\ Ref(last'.at) \in Repo_find_by_patient(RepositoryAfter, e.patient_id).ret
                         /\ old.patient_id # e.patient_id =>
                               \A ref \in Repo_find_by_patient(RepositoryAfter, old.patient_id).ret :
                                   heap'[ref.at].test_id # id ]_vars

\* C16 witness: update has replaced a stored object by one of another patient
C16_Witness ==
    /\ last.op = "repo.update" /\ last.ret = TRUE
    /\ heap[last.at].patient_id = 2
    /\ 1 \in DOMAIN index_patient
    /\ last.id \notin index_patient[1]

\* C17: history(limit), for limit >= 0 and a history of n records, returns
\* the last min(limit, n) records in order and never more than limit.
C17_HistoryReturnsLastLimit ==
    [][ last'.op = "repo.history" =>
            LET n == Len(history)
                limit == last'.args.limit
                k == IF limit < n THEN limit ELSE n
            IN  /\ last'.ret = SubSeq(history, n - k + 1, n)
                /\ Len(last'.ret) <= limit ]_vars

\* C18: a successful add, update or delete appends exactly one record, with
\* its action and the id, to the end of the history; a failed one and every
\* read append none; no step removes, reorders or rewrites an earlier
\* record.
C18_HistoryIsAppendOnly ==
    [][ /\ last'.op \in WriteOps =>
              IF last'.ret = TRUE
              THEN history' = Append(history,
                        [action |-> CASE last'.op = "repo.add" -> "ADD"
                                      [] last'.op = "repo.update" -> "UPDATE"
                                      [] last'.op = "repo.delete" -> "DELETE",
                         test_id |-> last'.id])
              ELSE history' = history
        /\ last'.op \in ReadOps => history' = history
        /\ Len(history') >= Len(history)
        /\ SubSeq(history', 1, Len(history)) = history ]_vars

\* C18 witness: a delete has appended the third record of the history
C18_Witness ==
    /\ last.op = "repo.delete" /\ last.ret = TRUE
    /\ Len(history) = 3
    /\ history[3] = [action |-> "DELETE", test_id |-> last.id]

\* C19: get, list_all, find_by_patient, filter_by_type, filter_by_status,
\* critical_results and history leave the primary map, both indexes with
\* their key sets, the history and every object unchanged, for present and
\* absent keys.
C19_ReadsChangeNothing ==
    [][ last'.op \in ReadOps => RepoUnchanged /\ heap' = heap ]_vars

\* C19 witness: find_by_patient has been called for a patient that is not a
\* key of the patient index, on a repository that holds an object
C19_Witness ==
    /\ last.op = "repo.find_by_patient"
    /\ last.args.patient_id \notin DOMAIN index_patient
    /\ last.ret = {}
    /\ tests # EmptyDict

\* C20 as stated: the cache never holds more entries than the capacity its
\* constructor was called with.
C20_SizeAtMostConfiguredCapacity == Cardinality(DOMAIN cache) <= capacity

\* C20: the cache never holds more entries than max(1, capacity), the
\* capacity its constructor keeps, and its counters are those of its entries.
C20_SizeAtMostKeptCapacity ==
    /\ Cardinality(DOMAIN cache) <= _capacity
    /\ HitKeys(hits) = DOMAIN cache

\* C20 witness: a put has filled the cache to the capacity it keeps while the
\* repository holds more tests than the cache
C20_Witness ==
    /\ last.op \in {"cache.get", "cache.add"}
    /\ last.id \in DOMAIN cache
    /\ Cardinality(DOMAIN cache) = _capacity
    /\ Cardinality(DOMAIN tests) > Cardinality(DOMAIN cache)

\* C21: a cache get(id) answered from the cache returns the object that the
\* repository's get(id) returns at that moment, whatever calls were made on
\* the cache and directly on the wrapped repository before.
C21_HitReturnsRepositoryObject ==
    [][ (last'.op = "cache.get" /\ last'.id \in DOMAIN cache) =>
            last'.ret = Repo_get(Repository, last'.id) ]_vars

\* C22: cache get(id), on a hit, returns the cached object, adds one to the
\* id's counter and changes no other counter and no cache entry; on a miss
\* for an id the repository holds it returns the repository's object and the
\* id is then cached with counter 1, one other entry having been removed if
\* the cache was full and none otherwise; on a miss for an id the repository
\* does not hold it returns None and leaves cache and counters unchanged.
\* The repository is unchanged in each case.
C22_CacheGet ==
    [][ last'.op = "cache.get" =>
            LET id == last'.id
            IN  /\ RepoUnchanged
                /\ IF id \in DOMAIN cache
                   THEN /\ last'.ret = cache[id]
                        /\ cache' = cache
                        /\ HitKeys(hits') = HitKeys(hits)
                        /\ HitGet(hits', id) = HitGet(hits, id) + 1
                        /\ \A k \in HitKeys(hits) \ {id} : HitGet(hits', k) = HitGet(hits, k)
                   ELSE IF id \in DOMAIN tests
                   THEN /\ last'.ret = tests[id]
                        /\ id \in DOMAIN cache'
                        /\ cache'[id] = tests[id]
                        /\ HitGet(hits', id) = 1
                        /\ HitKeys(hits') = DOMAIN cache'
                        /\ IF Cardinality(DOMAIN cache) >= _capacity
                           THEN \E victim \in DOMAIN cache :
                                    DOMAIN cache' = (DOMAIN cache \ {victim}) \cup {id}
                           ELSE DOMAIN cache' = DOMAIN cache \cup {id}
                        /\ \A k \in DOMAIN cache' \ {id} :
                              cache'[k] = cache[k] /\ HitGet(hits', k) = HitGet(hits, k)
                   ELSE /\ last'.ret = None
                        /\ cache' = cache
                        /\ hits' = hits ]_vars

\* C22 witness: a get has missed the cache, found the id in the repository
\* and cached it with counter 1 in a cache that is then full, while the
\* repository holds another test that is not cached
C22_Witness ==
    /\ last.op = "cache.get"
    /\ last.ret # None
    /\ last.id \in DOMAIN cache
    /\ HitGet(hits, last.id) = 1
    /\ Cardinality(DOMAIN cache) = _capacity
    /\ \E k \in DOMAIN tests : k \notin DOMAIN cache

\* the step put an id into the cache: a get that missed the cache and found
\* the id in the repository, or an add that the repository accepted
Inserted ==
    \/ last'.op = "cache.get" /\ last'.id \notin DOMAIN cache /\ last'.id \in DOMAIN tests
    \/ last'.op = "cache.add" /\ last'.ret = TRUE

\* an insertion into a cache that holds cap entries removes exactly one
\* entry, one whose counter is minimal among the cached entries, takes
\* nothing out of the repository, and leaves cap ids cached
EvictsOneAt(cap) ==
    (Inserted /\ Cardinality(DOMAIN cache) = cap) =>
        /\ \E victim \in DOMAIN cache :
              /\ DOMAIN cache' = (DOMAIN cache \ {victim}) \cup {last'.id}
              /\ \A k \in DOMAIN cache : HitGet(hits, victim) <= HitGet(hits, k)
        /\ Cardinality(DOMAIN cache') = cap
        /\ \A k \in DOMAIN tests : k \in DOMAIN tests' /\ tests'[k] = tests[k]
        /\ last'.op = "cache.get" => RepoUnchanged

\* C23 as stated: with capacity the value the cache was configured with.
C23_EvictsOneAtConfiguredCapacity == [][EvictsOneAt(capacity)]_vars

\* C23: an insertion into a cache that holds max(1, capacity) entries, the
\* capacity its constructor keeps, removes exactly one entry, whose counter
\* is minimal among the cached entries, leaves that many ids cached, and
\* removes nothing from the repository.
C23_EvictsOneAtKeptCapacity == [][EvictsOneAt(_capacity)]_vars

\* C23 witness: a third id has been added to a cache of capacity two whose
\* older entry had the higher counter, so that the newer entry was evicted
C23_Witness ==
    /\ last.op = "cache.add" /\ last.ret = TRUE
    /\ capacity = 2
    /\ Cardinality(DOMAIN tests) = 3
    /\ Len(hits) = 2
    /\ hits[1].n = 2
    /\ hits[2].k = last.id

\* C24: cache add(e) returns the repository's add result; when TRUE, e is
\* then held by the repository and by the cache, when FALSE the cache and
\* the counters are unchanged.  Cache delete(id) returns the repository's
\* delete result, and after it the id is held by neither the repository nor
\* the cache.
C24_WriteThrough ==
    [][ /\ (last'.op = "cache.add" /\ last'.at \in Addr) =>
              /\ last'.ret = Repo_add(Repository, heap, Ref(last'.at)).ret
              /\ IF last'.ret = TRUE
                 THEN /\ last'.id \in DOMAIN tests' /\ tests'[last'.id] = Ref(last'.at)
                      /\ last'.id \in DOMAIN cache' /\ cache'[last'.id] = Ref(last'.at)
                 ELSE cache' = cache /\ hits' = hits
        /\ last'.op = "cache.delete" =>
              /\ last'.ret = Repo_delete(Repository, heap, last'.id).ret
              /\ last'.id \notin DOMAIN tests'
              /\ last'.id \notin DOMAIN cache' ]_vars

\* C25: once two concurrent calls among add, update and delete have both
\* returned, every id in a patient-index or type-index set is a key of the
\* primary map whose stored object has that patient id or test type, every
\* stored object is indexed under its patient and its type, and two add
\* calls for the same id have not both returned TRUE.
C25_ConcurrentCallsKeepIndexes ==
    (threads[1].done /\ threads[2].done) =>
        /\ \A p \in DOMAIN index_patient : \A id \in index_patient[p] :
              id \in DOMAIN tests /\ heap[tests[id].at].patient_id = p
        /\ \A ty \in DOMAIN index_type : \A id \in index_type[ty] :
              id \in DOMAIN tests /\ heap[tests[id].at].test_type = ty
        /\ \A id \in DOMAIN tests :
              LET e == heap[tests[id].at]
              IN  /\ e.patient_id \in DOMAIN index_patient /\ id \in index_patient[e.patient_id]
                  /\ e.test_type \in DOMAIN index_type /\ id \in index_type[e.test_type]
        /\ ~ /\ threads[1].args.op = "add" /\ threads[2].args.op = "add"
             /\ threads[1].args.id = threads[2].args.id
             /\ threads[1].ret = TRUE /\ threads[2].ret = TRUE

\* C26: each factory call, whatever the repository holds, returns a new
\* object in status ORDERED with result None and result status UNKNOWN whose
\* audit trail is the one CREATE entry, and repository.get of its id returns
\* that object.
C26_FactoryStoresFreshTest ==
    [][ last'.op = "create_test" =>
            LET t == heap'[last'.at]
            IN  /\ last'.ret = Ref(last'.at)
                /\ heap[last'.at] = Free
                /\ t.test_id = last'.id
                /\ t.status = ORDERED
                /\ t.result = None
                /\ t.result_status = UNKNOWN
                /\ Len(t.audit) = 1 /\ t.audit[1].action = "CREATE"
                /\ Repo_get(RepositoryAfter, t.test_id) = last'.ret ]_vars

\* C27: each factory call issues the id one above the service's counter and
\* sets the counter to it, and no other call (deletion, failed lifecycle
\* call, failed or successful repository add) changes the counter; the ids
\* one service issues are therefore strictly increasing and never reissued.
C27_IdsStrictlyIncrease ==
    [][ /\ last'.op = "create_test" =>
              /\ last'.id > test_counter
              /\ test_counter' = last'.id
              /\ heap'[last'.at].test_id = last'.id
        /\ last'.op # "create_test" => test_counter' = test_counter ]_vars

\* C27 witness: the service has issued its second id after a deletion, while
\* the repository holds a test that the caller built with an id the service
\* had issued
C27_Witness ==
    /\ last.op = "create_test"
    /\ last.id = FirstCounter + 2
    /\ \E i \in 1..Len(history) : history[i].action = "DELETE"
    /\ \E a \in Addr : heap[a] # Free /\ heap[a].patient_id = 2 /\ heap[a].test_id < last.id

ServiceOps == {"service.collect_sample", "service.start_processing",
               "service.enter_result", "service.cancel_test"}

\* the LabTest method a service call makes, applied to self
EntityCall(op, self, args, now) ==
    CASE op = "service.collect_sample" -> collect_sample(self, args.when, now)
      [] op = "service.start_processing" -> start_processing(self)
      [] op = "service.enter_result" -> set_result(self, args.result, args.note, now)
      [] op = "service.cancel_test" -> cancel(self, args.reason)

\* the status a successful service call leaves
ServiceTarget(op) ==
    CASE op = "service.collect_sample" -> COLLECTED
      [] op = "service.start_processing" -> IN_PROGRESS
      [] op = "service.enter_result" -> COMPLETED
      [] op = "service.cancel_test" -> CANCELLED

\* C28: a service lifecycle call on a stored id leaves the stored object as
\* the LabTest method leaves it, so that repository.get shows the status of
\* the successful calls applied in order; a successful call sets the status
\* of its operation and appends one UPDATE record to the history, a failed
\* call leaves status and history; a call for an unknown id raises KeyError
\* and changes nothing.
C28_ServiceFollowsEntity ==
    [][ last'.op \in ServiceOps =>
            IF last'.id \notin DOMAIN tests
            THEN last'.exc = "KeyError" /\ heap' = heap /\ RepoUnchanged
            ELSE LET ref == tests[last'.id]
                 IN  /\ Repo_get(RepositoryAfter, last'.id) = ref
                     /\ \E now \in SvcTimes :
                           LET r == EntityCall(last'.op, heap[ref.at], last'.args, now)
                           IN  /\ last'.exc = r.exc
                               /\ heap'[ref.at] = r.self
                     /\ \A a \in Addr \ {ref.at} : heap'[a] = heap[a]
                     /\ Succeeded =>
                           /\ heap'[ref.at].status = ServiceTarget(last'.op)
                           /\ history' = Append(history, [action |-> "UPDATE", test_id |-> last'.id])
                     /\ ~Succeeded =>
                           /\ heap'[ref.at].status = heap[ref.at].status
                           /\ history' = history ]_vars

\* C28 witness: create, collect_sample, start_processing: the stored test is
\* IN_PROGRESS and the history holds the ADD and two UPDATE records
C28_Witness ==
    /\ last.op = "service.start_processing" /\ last.exc = NoError
    /\ last.id \in DOMAIN tests
    /\ heap[tests[last.id].at].status = IN_PROGRESS
    /\ heap[tests[last.id].at].collected_at # None
    /\ Len(history) = 3
    /\ history[2].action = "UPDATE" /\ history[3].action = "UPDATE"

\* the value of a blood result
ValueOf(result) == IF result.kind = "dict" THEN GetItem(result, "value") ELSE result.value

\* the verdict C29 states for value v against (low, high): NORMAL inside the
\* bounds, BORDERLINE within 10% of the bound it is outside of, CRITICAL
\* otherwise
Verdict(low, high, v) ==
    IF low <= v /\ v <= high THEN NORMAL
    ELSE IF (v < low /\ 10 * (low - v) <= low) \/ (v > high /\ 10 * (v - high) <= high) THEN BORDERLINE
    ELSE CRITICAL

\* a successful set_result on a BloodTest whose range is in scope returned
\* the verdict
ReturnsVerdict(in_scope) ==
    (Called("set_result") /\ Succeeded /\ Before.cls = "BloodTest" /\ in_scope) =>
        last'.ret = Verdict(Before.reference.low, Before.reference.high, ValueOf(last'.args.result))

\* the range of the test the call is made on has 0 < low <= high
PositiveRange == 0 < Before.reference.low /\ Before.reference.low <= Before.reference.high

\* C29 as stated: for every range with 0 < low <= high.
C29_BloodVerdictAnyPositiveRange ==
    [][ReturnsVerdict(PositiveRange)]_vars

\* C29: for a range with 1e-9 <= low <= high and a validated value, set_result
\* returns NORMAL iff low <= v <= high, BORDERLINE iff v is outside by at
\* most 10% of the bound it passed, CRITICAL otherwise; for (70, 110): 70 and
\* 110 NORMAL, 66.5 BORDERLINE, 56, 220 and 250 CRITICAL.
C29_BloodVerdict ==
    [][ /\ ReturnsVerdict(PositiveRange /\ Before.reference.nano <= Before.reference.low)
        /\ (Called("set_result") /\ Succeeded /\ Before.reference = GlucoseRange) =>
              LET v == ValueOf(last'.args.result)
              IN  /\ v \in {70, 110} => last'.ret = NORMAL
                  /\ v \in {56, 220, 250} => last'.ret = CRITICAL
        /\ (Called("set_result") /\ Succeeded /\ Before.reference = ReferenceRangeOn(140, 220, s_mg_dL, 0)) =>
              (ValueOf(last'.args.result) = 133 => last'.ret = BORDERLINE) ]_vars

\* C29 witness: 121 against (70, 110), exactly 10% above the upper bound, has
\* been stored as BORDERLINE
C29_Witness ==
    /\ last.op = "set_result" /\ last.exc = NoError
    /\ heap[last.at].reference = GlucoseRange
    /\ ValueOf(last.args.result) = 121
    /\ last.ret = BORDERLINE
    /\ heap[last.at].result_status = BORDERLINE

\* the text evaluate_criticality looks at: the report itself, the values of
\* an imaging map joined by spaces, the diagnosis of a biopsy map
EvaluatedText(cls, result) ==
    IF result.kind = "str" THEN result.text
    ELSE IF cls = "ImagingTest" THEN join(values_str(result.items))
    ELSE GetItem(result, "diagnosis")

\* some keyword of the set occurs in the text, whatever the case of letters
MatchesAny(text, keywords) == \E k \in keywords : Contains(lower(text), k)

CriticalSet(cls) == IF cls = "ImagingTest" THEN critical_keywords ELSE malignant_keywords
BorderlineSet(cls) == IF cls = "ImagingTest" THEN borderline_keywords ELSE suspicious_keywords

\* C30: a successful set_result on an Imaging or Biopsy test returns CRITICAL
\* when the evaluated text matches a critical keyword, whether or not it also
\* matches a borderline keyword; BORDERLINE when it matches no critical
\* keyword and some borderline keyword; NORMAL when it matches none.
C30_KeywordPriority ==
    [][(Called("set_result") /\ Succeeded /\ Before.cls \in {"ImagingTest", "BiopsyTest"}) =>
          LET text == EvaluatedText(Before.cls, last'.args.result)
              critical == MatchesAny(text, CriticalSet(Before.cls))
              borderline == MatchesAny(text, BorderlineSet(Before.cls))
          IN  /\ critical => last'.ret = CRITICAL
              /\ (~critical /\ borderline) => last'.ret = BORDERLINE
              /\ (~critical /\ ~borderline) => last'.ret = NORMAL
              /\ After.result_status = last'.ret]_vars

\* an imaging report with a critical and a borderline keyword was entered and
\* came back CRITICAL
C30_Witness ==
    /\ last.op = "set_result" /\ last.exc = NoError
    /\ heap[last.at].cls = "ImagingTest"
    /\ last.args.result = str(join(<<w_mild, w_Rupture>>))
    /\ last.ret = CRITICAL

\* the objects the repository holds
Stored == {tests[k] : k \in DOMAIN tests}

\* C31: in every state reached by service, lifecycle and repository calls,
\* critical_results() returns exactly the stored objects whose result_status
\* is CRITICAL, and each of them is COMPLETED and has a result.
C31_CriticalResults ==
    LET found == Repo_critical_results(Repository, heap).ret
    IN  /\ found = {ref \in Stored : heap[ref.at].result_status = CRITICAL}
        /\ \A ref \in found : heap[ref.at].status = COMPLETED /\ heap[ref.at].result # None

\* the service has completed a stored test with a critical result, and
\* critical_results() returns it
C31_Witness ==
    /\ last.op = "service.enter_result" /\ last.exc = NoError /\ last.ret = CRITICAL
    /\ Repo_critical_results(Repository, heap).ret # {}

\* the objects that exist
Live == {a \in Addr : heap[a] # Free}

C33_ReadsChangeNoField ==
    [][(Called("summary") \/ Called("audit_trail")) =>
          /\ After.status = Before.status
          /\ After.collected_at = Before.collected_at
          /\ After.completed_at = Before.completed_at
          /\ After.result = Before.result
          /\ After.result_note = Before.result_note
          /\ After.result_status = Before.result_status
          /\ After.audit = Before.audit
          /\ heap' = heap]_vars

\* summary() was called on a completed object and returned its status
C33_Witness ==
    /\ last.op = "summary" /\ last.exc = NoError
    /\ heap[last.at].status = COMPLETED
    /\ last.ret.value.status = COMPLETED
    /\ Len(heap[last.at].audit) = 3

\* C34: maybe_create_alert(t) appends and returns an alert with t's test id
\* and patient id when t.result_status is CRITICAL, and otherwise returns
\* None and changes nothing; alert ids are 1, 2, 3, ... in creation order;
\* an alert becomes acknowledged only by acknowledge(its id), and
\* list_unacknowledged returns the alerts not acknowledged, in order.
C34_Alerts ==
    [][/\ last'.op = "alerts.maybe_create_alert" =>
            IF heap[last'.at].result_status = CRITICAL
            THEN /\ last'.ret.test_id = heap[last'.at].test_id
                 /\ last'.ret.patient_id = heap[last'.at].patient_id
                 /\ last'.ret.alert_id = Len(alerts) + 1
                 /\ ~last'.ret.acknowledged
                 /\ alerts' = Append(alerts, last'.ret)
            ELSE last'.ret = None /\ alerts' = alerts /\ alert_counter' = alert_counter
       /\ \A i \in 1..Len(alerts') : alerts'[i].alert_id = i
       /\ \A i \in 1..Len(alerts) :
             /\ alerts'[i].alert_id = alerts[i].alert_id
             /\ alerts[i].acknowledged => alerts'[i].acknowledged
             /\ (alerts'[i].acknowledged /\ ~alerts[i].acknowledged) =>
                    (last'.op = "alerts.acknowledge" /\ last'.args.alert_id = i /\ last'.ret = TRUE)
       /\ last'.op = "alerts.acknowledge" =>
             /\ last'.ret = (last'.args.alert_id \in 1..Len(alerts))
             /\ last'.ret => alerts'[last'.args.alert_id].acknowledged
       /\ last'.op = "alerts.list_unacknowledged" =>
             /\ alerts' = alerts
             /\ \E keep \in SUBSET (1..Len(alerts)) :
                   /\ keep = {i \in 1..Len(alerts) : ~alerts[i].acknowledged}
                   /\ Len(last'.ret) = Cardinality(keep)
                   /\ \A i \in keep : \E j \in 1..Len(last'.ret) : last'.ret[j] = alerts[i]
                   /\ \A j \in 1..Len(last'.ret) : \E i \in keep : last'.ret[j] = alerts[i]]_vars

\* two alerts were created, the first was acknowledged, and the list of
\* unacknowledged alerts came back holding the second only
C34_Witness ==
    /\ last.op = "alerts.list_unacknowledged"
    /\ Len(alerts) = 2
    /\ alerts[1].acknowledged /\ ~alerts[2].acknowledged
    /\ alerts[1].test_id # alerts[2].test_id
    /\ last.ret = <<alerts[2]>>

\* the order ORDERED < COLLECTED < IN_PROGRESS < {COMPLETED, CANCELLED}
Rank(status) ==
    CASE status = ORDERED -> 0
      [] status = COLLECTED -> 1
      [] status = IN_PROGRESS -> 2
      [] status \in Terminal -> 3

\* C35: every lifecycle call that succeeds moves the status strictly forward
\* in the order ORDERED < COLLECTED < IN_PROGRESS < {COMPLETED, CANCELLED};
\* so at most three calls succeed on an object, after three it is terminal,
\* and its audit trail never has more than four entries.
C35_AtMostThreeSuccesses ==
    [][ (last'.op \in LifecycleOps /\ last'.at \in Addr) =>
            /\ Succeeded => Rank(Before.status) < Rank(After.status)
            /\ Len(After.audit) <= 4
            /\ Len(After.audit) = 4 => After.status \in Terminal ]_vars

\* C38: after the construction of an object and after every lifecycle call
\* on it, completed_at is set exactly when the status is COMPLETED, a
\* COLLECTED object has collected_at set, and collected_at is set only by a
\* collect_sample call that succeeds.
C38_Timestamps ==
    [][ (last'.at \in Addr /\ last'.op \in LifecycleOps \cup {"construct"}) =>
            /\ (After.completed_at # None) <=> (After.status = COMPLETED)
            /\ After.status = COLLECTED => After.collected_at # None
            /\ IF last'.op = "construct" THEN After.collected_at = None
               ELSE (After.collected_at # None /\ Before.collected_at = None) =>
                        (last'.op = "collect_sample" /\ Succeeded)
            /\ After.collected_at # None => CountAudit(After, "COLLECT") >= 1 ]_vars

\* a collected sample has been processed and its result entered: both
\* timestamps are set on a COMPLETED object
C38_Witness ==
    /\ last.op = "set_result" /\ last.exc = NoError
    /\ heap[last.at].status = COMPLETED
    /\ heap[last.at].completed_at # None
    /\ heap[last.at].collected_at # None
    /\ CountAudit(heap[last.at], "COLLECT") = 1

\* C36: over a repository written only through the cache layer, every cache
\* call returns what the same call on the repository returns in that state
\* and leaves the repository as that call leaves it: get(id) returns the
\* stored object for every id the repository holds, cached or not, and None
\* for every other id.
C36_CacheAnswersAsRepository ==
    [][ /\ last'.op = "cache.get" =>
              /\ last'.ret = Repo_get(Repository, last'.id)
              /\ last'.ret = (IF last'.id \in DOMAIN tests THEN tests[last'.id] ELSE None)
              /\ RepoUnchanged
        /\ (last'.op = "cache.add" /\ last'.at \in Addr) =>
              /\ last'.ret = Repo_add(Repository, heap, Ref(last'.at)).ret
              /\ RepositoryAfter = Repo_add(Repository, heap, Ref(last'.at)).R
        /\ last'.op = "cache.delete" =>
              /\ last'.ret = Repo_delete(Repository, heap, last'.id).ret
              /\ RepositoryAfter = Repo_delete(Repository, heap, last'.id).R ]_vars

\* get has returned a stored object that had been evicted from a full cache
C36_Witness ==
    /\ last.op = "cache.get" /\ last.ret # None
    /\ last.ret = tests[last.id]
    /\ HitGet(hits, last.id) = 1
    /\ Cardinality(DOMAIN tests) = 3
    /\ Cardinality(DOMAIN cache) = 2
    /\ capacity = 2

\* the cached ids in the order their counters were inserted
Order(hs) == [i \in 1..Len(hs) |-> hs[i].k]

\* C37: an insertion into a full cache removes, among the cached entries
\* whose counter is minimal, the one whose counter was inserted first,
\* whatever the ids; the entries that stay keep their order.
C37_EvictsEarliestOfTied ==
    [][ (Inserted /\ Cardinality(DOMAIN cache) = _capacity) =>
            \E v \in 1..Len(hits) :
                /\ \A j \in 1..Len(hits) : hits[v].n <= hits[j].n
                /\ \A j \in 1..(v - 1) : hits[j].n # hits[v].n
                /\ hits[v].k \notin DOMAIN cache' \ {last'.id}
                /\ DOMAIN cache' = (DOMAIN cache \ {hits[v].k}) \cup {last'.id}
                /\ Order(hits') = Order(HitPop(hits, hits[v].k)) \o <<last'.id>> ]_vars

\* ids 2 and 1 were cached in this order with equal counters, and adding id
\* 3 has evicted id 2, the larger of the two
C37_Witness ==
    /\ last.op = "cache.add" /\ last.ret = TRUE /\ last.id = 3
    /\ capacity = 2
    /\ Order(hits) = <<1, 3>>
    /\ hits[1].n = 1
    /\ 2 \in DOMAIN tests

\* C39: the counters and the cache have the same keys, every counter is at
\* least 1, and whenever the cache is full, so that the next insertion
\* evicts, the counter map is not empty.
C39_CountersMatchCache ==
    /\ HitKeys(hits) = DOMAIN cache
    /\ Len(hits) = Cardinality(DOMAIN cache)
    /\ \A i \in 1..Len(hits) : hits[i].n >= 1
    /\ Cardinality(DOMAIN cache) >= _capacity => hits # <<>>

\* in a cache of capacity one an entry was evicted and the entry that
\* replaced it deleted: the counter map is empty, and so is the cache
C39_Witness ==
    /\ last.op = "cache.delete" /\ last.ret = TRUE
    /\ capacity = 1
    /\ Cardinality(DOMAIN tests) = 1
    /\ hits = <<>>
    /\ DOMAIN cache = {}

====
